---- MODULE Spec2Model ----
(***************************************************************************)
(* A model of aouyang1/go-lsh: the LSH engine (lsh/lsh.go), its tables     *)
(* (tables), forward index (forwardindex), bounded top-N collector         *)
(* (results), hyperplane hashing (hyperplanes) and the configuration and   *)
(* search-option validators (configs, options).                            *)
(*                                                                         *)
(* Numbers.  Vectors are sequences of integers.  float64 arithmetic is     *)
(* modelled exactly: a correlation r is kept as its sign and r^2 as a      *)
(* reduced fraction, NaN is a value of its own, thresholds are fractions.  *)
(* L2 normalisation (the default transform) is modelled as division by the *)
(* gcd of the components: like the code's scaling by 1/norm it maps every  *)
(* positive multiple of a vector to one representative and it changes the  *)
(* vector it is applied to.  Go's integer division truncates toward zero   *)
(* (Quo).  Go maps are functions with a finite domain.                     *)
(***************************************************************************)
EXTENDS Integers, Sequences, FiniteSets, TLC

VARIABLES Cfg,      \* LSH.Cfg: the configuration passed to New
          built,    \* TRUE when New returned an engine
          Tables,   \* LSH.Tables: sequence of [Table, Doc2Hash]
          Docs,     \* LSH.Docs.docs: uid -> [Index, Vector]
          ret,      \* the last call, its arguments and what it returned
          indexed,  \* history: documents indexed without error and not deleted since
          nops,     \* history: number of calls that changed the engine
          res,      \* a results.Results collector driven directly
          offered,  \* history: the scores passed to res.Update, in order
          threads   \* a Search and an Index or Delete in flight together

vars == <<Cfg, built, Tables, Docs, ret, indexed, nops, res, offered, threads>>

-----------------------------------------------------------------------------
(* Bounds of the model *)

NumUIDs == 2
MaxOps == 3
MaxTime == 2
MaxTopN == 2
MaxOffered == 3

\* the uids and time indices of the documents offered to the engine
UIDs == 1..NumUIDs

Times == -1..MaxTime

-----------------------------------------------------------------------------
(* Generic helpers *)

NIL == "nil"

EmptyMap == [x \in {} |-> {}]

Put(m, k, v) == [x \in (DOMAIN m) \cup {k} |-> IF x = k THEN v ELSE m[x]]

Del(m, k) == [x \in (DOMAIN m) \ {k} |-> m[x]]

Abs(x) == IF x < 0 THEN -x ELSE x

\* Go's integer division (truncates toward zero), b > 0
Quo(a, b) == IF a >= 0 THEN a \div b ELSE -((-a) \div b)

RECURSIVE Gcd(_, _)
Gcd(a, b) == IF b = 0 THEN a ELSE Gcd(b, a % b)

RECURSIVE SumSeq(_)
SumSeq(s) == IF s = <<>> THEN 0 ELSE Head(s) + SumSeq(Tail(s))

\* floats.Dot
Dot(p, f) == SumSeq([i \in 1..Len(p) |-> p[i] * f[i]])

\* floats.Scale(-1, vec)
Negate(v) == [i \in 1..Len(v) |-> -v[i]]

RECURSIVE GcdSeq(_)
GcdSeq(s) == IF s = <<>> THEN 0 ELSE Gcd(Abs(Head(s)), GcdSeq(Tail(s)))

\* all orderings of a finite set, as sequences
RECURSIVE Orderings(_)
Orderings(S) ==
  IF S = {} THEN {<<>>}
  ELSE UNION {{<<x>> \o o : o \in Orderings(S \ {x})} : x \in S}

-----------------------------------------------------------------------------
(* configs *)

maxNumHyperplanes == 16

ErrInvalidNumHyperplanes == "InvalidNumHyperplanes"
ErrExceededMaxNumHyperplanes == "ExceededMaxNumHyperplanes"
ErrInvalidNumTables == "InvalidNumTables"
ErrInvalidVectorLength == "InvalidVectorLength"
ErrInvalidSamplePeriod == "InvalidSamplePeriod"
ErrInvalidRowSize == "InvalidRowSize"

\* LSHConfigs.Validate with two checks exchanged
Validate_TablesFirst(c) ==
  IF c.NumTables < 1 THEN ErrInvalidNumTables
  ELSE IF c.NumHyperplanes < 1 THEN ErrInvalidNumHyperplanes
  ELSE IF c.NumHyperplanes > maxNumHyperplanes THEN ErrExceededMaxNumHyperplanes
  ELSE IF c.VectorLength < 1 THEN ErrInvalidVectorLength
  ELSE IF c.SamplePeriod < 1 THEN ErrInvalidSamplePeriod
  ELSE IF c.RowSize < 1 THEN ErrInvalidRowSize
  ELSE NIL

\* LSHConfigs.Validate
Validate(c) ==
  IF c.NumHyperplanes < 1 THEN ErrInvalidNumHyperplanes
  ELSE IF c.NumHyperplanes > maxNumHyperplanes THEN ErrExceededMaxNumHyperplanes
  ELSE IF c.NumTables < 1 THEN ErrInvalidNumTables
  ELSE IF c.VectorLength < 1 THEN ErrInvalidVectorLength
  ELSE IF c.SamplePeriod < 1 THEN ErrInvalidSamplePeriod
  ELSE IF c.RowSize < 1 THEN ErrInvalidRowSize
  ELSE NIL

\* NewDefaultTransformFunc: scales the vector in place and returns it.
\* A zero vector (norm 0) becomes all NaN; it hashes and correlates like the
\* zero vector, which stands for it.
NewDefaultTransformFunc(vec) ==
  LET g == GcdSeq(vec)
  IN IF g = 0 THEN vec ELSE [i \in 1..Len(vec) |-> Quo(vec[i], g)]

-----------------------------------------------------------------------------
(* hyperplanes *)

ErrNoVector == "NoVector"
ErrNumHyperplanesExceedHashBits == "NumHyperplanesExceedHashBits"
ErrVectorLengthMismatch == "VectorLengthMismatch"

\* component j of plane k of table t: the outcome of the random draw of
\* NewHyperplanes that the model fixes (only the direction of a plane matters
\* to the sign of a dot product, so the planes are kept as integer vectors)
PlaneComp(t, k, j) == ((t + 2 * k * j + 2) % 3) - 1

\* hyperplanes.New(numHyperplanes, vecLen) for table t
NewHyperplanes(t, numHyperplanes, vecLen) ==
  [k \in 1..numHyperplanes |-> [j \in 1..vecLen |-> PlaneComp(t, k, j)]]

\* Hyperplanes.hash, the test of a plane: b | 1<<(8-bitCnt-1) when the dot
\* product of the plane with f is > 0 (the bit is clear in b before, so the or
\* adds it)
setBit_NonStrict(b, p, f, bitCnt) ==
  IF Dot(p, f) >= 0 THEN b + 2 ^ (8 - bitCnt - 1) ELSE b

setBit(b, p, f, bitCnt) ==
  IF Dot(p, f) > 0 THEN b + 2 ^ (8 - bitCnt - 1) ELSE b

\* Hyperplanes.hash, the loop over the planes from plane k on until the byte b
\* is full (bitCnt = 8) or the planes end: the byte, the bits in it, the next
\* plane, and the error of a plane whose length is not that of f
RECURSIVE byteFrom(_, _, _, _, _)
byteFrom(planes, f, k, b, bitCnt) ==
  IF k > Len(planes) \/ bitCnt = 8 THEN [err |-> NIL, b |-> b, bitCnt |-> bitCnt, k |-> k]
  ELSE IF Len(f) # Len(planes[k])
  THEN [err |-> ErrVectorLengthMismatch, b |-> b, bitCnt |-> bitCnt, k |-> k]
  ELSE byteFrom(planes, f, k + 1, setBit(b, planes[k], f, bitCnt), bitCnt + 1)

\* Hyperplanes.hash, the loop from plane k on with b = 0 and bitCnt = 0: a
\* full byte is written to buffer[byteCnt] and the loop goes on, a last byte
\* that is not full is written after the loop (r is what byteFrom found)
RECURSIVE hashFrom(_, _, _, _, _)
writeByte(planes, f, buffer, byteCnt, r) ==
  IF r.err # NIL THEN [err |-> r.err, buffer |-> buffer]
  ELSE IF r.bitCnt = 8
  THEN hashFrom(planes, f, [buffer EXCEPT ![byteCnt + 1] = r.b], r.k, byteCnt + 1)
  ELSE [err |-> NIL,
        buffer |-> IF r.bitCnt # 0 THEN [buffer EXCEPT ![byteCnt + 1] = r.b] ELSE buffer]

hashFrom(planes, f, buffer, k, byteCnt) ==
  writeByte(planes, f, buffer, byteCnt, byteFrom(planes, f, k, 0, 0))

\* Hyperplanes.hash on a zeroed buffer of n bytes
hash(planes, f, n) == hashFrom(planes, f, [i \in 1..n |-> 0], 1, 0)

\* binary.BigEndian.Uint16 / Uint32 / Uint64
RECURSIVE BigEndian(_)
BigEndian(buffer) ==
  IF buffer = <<>> THEN 0
  ELSE Head(buffer) * (256 ^ (Len(buffer) - 1)) + BigEndian(Tail(buffer))

\* Hyperplanes.Hash16
Hash16(planes, f) ==
  IF Len(f) = 0 THEN [err |-> ErrNoVector, hash |-> 0]
  ELSE IF Len(planes) > 16 THEN [err |-> ErrNumHyperplanesExceedHashBits, hash |-> 0]
  ELSE LET h == hash(planes, f, 2)
       IN IF h.err # NIL THEN [err |-> h.err, hash |-> 0]
          ELSE [err |-> NIL, hash |-> BigEndian(h.buffer)]

\* binary.BigEndian.Uint32 / Uint64: the value is kept as its digits in base
\* 65536, the most significant first (a 32-bit code is two digits, a 64-bit
\* code four)
BigEndianWide(buffer) ==
  [i \in 1..(Len(buffer) \div 2) |-> BigEndian(SubSeq(buffer, 2 * i - 1, 2 * i))]

\* Hyperplanes.Hash64
Hash64(planes, f) ==
  IF Len(f) = 0 THEN [err |-> ErrNoVector, hash |-> BigEndianWide(<<0, 0, 0, 0, 0, 0, 0, 0>>)]
  ELSE IF Len(planes) > 64
  THEN [err |-> ErrNumHyperplanesExceedHashBits, hash |-> BigEndianWide(<<0, 0, 0, 0, 0, 0, 0, 0>>)]
  ELSE LET h == hash(planes, f, 8)
       IN IF h.err # NIL THEN [err |-> h.err, hash |-> BigEndianWide(<<0, 0, 0, 0, 0, 0, 0, 0>>)]
          ELSE [err |-> NIL, hash |-> BigEndianWide(h.buffer)]

\* Hyperplanes.Hash32
Hash32(planes, f) ==
  IF Len(f) = 0 THEN [err |-> ErrNoVector, hash |-> BigEndianWide(<<0, 0, 0, 0>>)]
  ELSE IF Len(planes) > 32
  THEN [err |-> ErrNumHyperplanesExceedHashBits, hash |-> BigEndianWide(<<0, 0, 0, 0>>)]
  ELSE LET h == hash(planes, f, 4)
       IN IF h.err # NIL THEN [err |-> h.err, hash |-> BigEndianWide(<<0, 0, 0, 0>>)]
          ELSE [err |-> NIL, hash |-> BigEndianWide(h.buffer)]

\* Hyperplanes.Hash8
Hash8(planes, f) ==
  IF Len(f) = 0 THEN [err |-> ErrNoVector, hash |-> 0]
  ELSE IF Len(planes) > 8 THEN [err |-> ErrNumHyperplanesExceedHashBits, hash |-> 0]
  ELSE LET h == hash(planes, f, 1)
       IN IF h.err # NIL THEN [err |-> h.err, hash |-> 0]
          ELSE [err |-> NIL, hash |-> h.buffer[1]]

-----------------------------------------------------------------------------
(* document *)

\* document.NewSimple
NewSimple(uid, index, v) == [UID |-> uid, Index |-> index, Vector |-> v]

-----------------------------------------------------------------------------
(* bitmap: a roaring bitmap is the set of uids it holds *)

\* Bitmap.Add
BitmapAdd(rb, uid) == rb \cup {uid}

\* Bitmap.CheckedRemove
CheckedRemove(rb, uid) == rb \ {uid}

\* Bitmap.IsEmpty
IsEmpty(rb) == rb = {}

-----------------------------------------------------------------------------
(* tables *)

DocumentNotStored == "DocumentNotStored"
ErrHashNotFound == "HashNotFound"
DuplicateDocument == "DuplicateDocument"

\* tables.NewTable
NewTable == [Table |-> EmptyMap, Doc2Hash |-> EmptyMap]

\* the row shard computed with a division that rounds down
RowIndex_Floor(index) == (index \div Cfg.RowSize) * Cfg.RowSize

\* the row shard of a time index: index / RowSize * RowSize in Go
RowIndex(index) == Quo(index, Cfg.RowSize) * Cfg.RowSize

\* Table.Index of an earlier revision: a uid already in the table is rejected
TableIndex_RejectDuplicate(t, planes, d) ==
  LET h == Hash16(planes, d.Vector)
      rowIndex == RowIndex(d.Index)
      tbl == IF rowIndex \in DOMAIN t.Table THEN t.Table[rowIndex] ELSE EmptyMap
      rb == IF h.hash \in DOMAIN tbl THEN tbl[h.hash] ELSE {}
  IN IF d.UID \in DOMAIN t.Doc2Hash THEN [t |-> t, err |-> DuplicateDocument]
     ELSE IF h.err # NIL THEN [t |-> t, err |-> h.err]
     ELSE [t |-> [Table |-> Put(t.Table, rowIndex, Put(tbl, h.hash, BitmapAdd(rb, d.UID))),
                  Doc2Hash |-> Put(t.Doc2Hash, d.UID, Put(EmptyMap, h.hash, <<d.Index>>))],
           err |-> NIL]

\* Table.Index that records no time index in the reverse index
TableIndex_NoTimestamp(t, planes, d) ==
  LET h == Hash16(planes, d.Vector)
      rowIndex == RowIndex(d.Index)
      tbl == IF rowIndex \in DOMAIN t.Table THEN t.Table[rowIndex] ELSE EmptyMap
      rb == IF h.hash \in DOMAIN tbl THEN tbl[h.hash] ELSE {}
      hashTimestamps == IF d.UID \in DOMAIN t.Doc2Hash THEN t.Doc2Hash[d.UID] ELSE EmptyMap
      timestamps == IF h.hash \in DOMAIN hashTimestamps THEN hashTimestamps[h.hash] ELSE <<>>
  IN IF h.err # NIL THEN [t |-> t, err |-> h.err]
     ELSE [t |-> [Table |-> Put(t.Table, rowIndex, Put(tbl, h.hash, BitmapAdd(rb, d.UID))),
                  Doc2Hash |-> Put(t.Doc2Hash, d.UID,
                                   Put(hashTimestamps, h.hash, timestamps))],
           err |-> NIL]

\* Table.Index
TableIndex(t, planes, d) ==
  LET h == Hash16(planes, d.Vector)
      rowIndex == RowIndex(d.Index)
      tbl == IF rowIndex \in DOMAIN t.Table THEN t.Table[rowIndex] ELSE EmptyMap
      rb == IF h.hash \in DOMAIN tbl THEN tbl[h.hash] ELSE {}
      hashTimestamps == IF d.UID \in DOMAIN t.Doc2Hash THEN t.Doc2Hash[d.UID] ELSE EmptyMap
      timestamps == IF h.hash \in DOMAIN hashTimestamps THEN hashTimestamps[h.hash] ELSE <<>>
  IN IF h.err # NIL THEN [t |-> t, err |-> h.err]
     ELSE [t |-> [Table |-> Put(t.Table, rowIndex, Put(tbl, h.hash, BitmapAdd(rb, d.UID))),
                  Doc2Hash |-> Put(t.Doc2Hash, d.UID,
                                   Put(hashTimestamps, h.hash, Append(timestamps, d.Index)))],
           err |-> NIL]

\* the timestamps recorded for uid under hash: t.Doc2Hash[uid][hash], nil when absent
Timestamps(t, uid, h) ==
  IF uid \in DOMAIN t.Doc2Hash /\ h \in DOMAIN t.Doc2Hash[uid]
  THEN {t.Doc2Hash[uid][h][i] : i \in 1..Len(t.Doc2Hash[uid][h])}
  ELSE {}

\* the row range of Table.Filter with the end of the query's vector added to
\* the window: endIdx = d.Index + VectorLength * SamplePeriod + maxLag
FilterRows_VectorSpan(d, maxLag) ==
  LET startIdx == d.Index - maxLag
      endIdx == d.Index + Cfg.VectorLength * Cfg.SamplePeriod + maxLag
      startRow == RowIndex(startIdx)
      endRow == RowIndex(endIdx)
      rows == Quo(endRow - startRow, Cfg.RowSize) + 1
  IN {startRow + i * Cfg.RowSize : i \in 0..(rows - 1)}

\* the row keys Table.Filter looks up in t.Table when maxLag > -1:
\* startRow + i * RowSize for i < rows
FilterRows(d, maxLag) ==
  LET startIdx == d.Index - maxLag
      endIdx == d.Index + maxLag
      startRow == RowIndex(startIdx)
      endRow == RowIndex(endIdx)
      rows == Quo(endRow - startRow, Cfg.RowSize) + 1
  IN {startRow + i * Cfg.RowSize : i \in 0..(rows - 1)}

\* Table.Filter that visits one row fewer than the window spans
TableFilter_OneRowShort(t, planes, d, maxLag) ==
  LET h == Hash16(planes, d.Vector).hash
      startIdx == d.Index - maxLag
      endIdx == d.Index + maxLag
      startRow == RowIndex(startIdx)
      endRow == RowIndex(endIdx)
      rows == Quo(endRow - startRow, Cfg.RowSize)
      visited == IF maxLag > -1
                 THEN {r \in DOMAIN t.Table :
                         \E i \in 0..(rows - 1) : r = startRow + i * Cfg.RowSize}
                 ELSE DOMAIN t.Table
      found == UNION {t.Table[r][h] : r \in {x \in visited : h \in DOMAIN t.Table[x]}}
  IN [uid \in found |->
        IF maxLag > -1
        THEN {index \in Timestamps(t, uid, h) : index >= startIdx /\ index <= endIdx}
        ELSE Timestamps(t, uid, h)]

\* Table.Filter: uid -> set of time indices (a uid of a visited bitmap gets an
\* entry even when none of its time indices is within the lag)
TableFilter(t, planes, d, maxLag) ==
  LET h == Hash16(planes, d.Vector).hash
      startIdx == d.Index - maxLag
      endIdx == d.Index + maxLag
      visited == IF maxLag > -1
                 THEN DOMAIN t.Table \cap FilterRows(d, maxLag)
                 ELSE DOMAIN t.Table
      found == UNION {t.Table[r][h] : r \in {x \in visited : h \in DOMAIN t.Table[x]}}
  IN [uid \in found |->
        IF maxLag > -1
        THEN {index \in Timestamps(t, uid, h) : index >= startIdx /\ index <= endIdx}
        ELSE Timestamps(t, uid, h)]

\* Table.Delete that forgets the reverse index entry
TableDelete_KeepDoc2Hash(t, uid) ==
  IF uid \notin DOMAIN t.Doc2Hash THEN [t |-> t, err |-> DocumentNotStored]
  ELSE LET hashes == DOMAIN t.Doc2Hash[uid]
       IN [t |-> [Table |-> [r \in DOMAIN t.Table |->
                     [h \in {x \in DOMAIN t.Table[r] :
                               ~(x \in hashes /\ IsEmpty(CheckedRemove(t.Table[r][x], uid)))} |->
                        IF h \in hashes THEN CheckedRemove(t.Table[r][h], uid)
                        ELSE t.Table[r][h]]],
                  Doc2Hash |-> t.Doc2Hash],
           err |-> NIL]

\* Table.Delete that leaves the key of a bucket it has emptied
TableDelete_KeepEmptyBucket(t, uid) ==
  IF uid \notin DOMAIN t.Doc2Hash THEN [t |-> t, err |-> DocumentNotStored]
  ELSE LET hashes == DOMAIN t.Doc2Hash[uid]
           hit == \E r \in DOMAIN t.Table : \E h \in hashes : h \in DOMAIN t.Table[r]
       IN [t |-> [Table |-> [r \in DOMAIN t.Table |->
                     [h \in DOMAIN t.Table[r] |->
                        IF h \in hashes THEN CheckedRemove(t.Table[r][h], uid)
                        ELSE t.Table[r][h]]],
                  Doc2Hash |-> Del(t.Doc2Hash, uid)],
           err |-> IF hit THEN NIL ELSE ErrHashNotFound]

\* Table.Delete that leaves the uid's entry of Doc2Hash in place
TableDelete_KeepReverseIndex(t, uid) ==
  IF uid \notin DOMAIN t.Doc2Hash THEN [t |-> t, err |-> DocumentNotStored]
  ELSE LET hashes == DOMAIN t.Doc2Hash[uid]
           hit == \E r \in DOMAIN t.Table : \E h \in hashes : h \in DOMAIN t.Table[r]
       IN [t |-> [Table |-> [r \in DOMAIN t.Table |->
                     [h \in {x \in DOMAIN t.Table[r] :
                               ~(x \in hashes /\ IsEmpty(CheckedRemove(t.Table[r][x], uid)))} |->
                        IF h \in hashes THEN CheckedRemove(t.Table[r][h], uid)
                        ELSE t.Table[r][h]]],
                  Doc2Hash |-> t.Doc2Hash],
           err |-> IF hit THEN NIL ELSE ErrHashNotFound]

\* Table.Delete that drops every bucket recorded for the uid, empty or not
TableDelete_DropBucket(t, uid) ==
  IF uid \notin DOMAIN t.Doc2Hash THEN [t |-> t, err |-> DocumentNotStored]
  ELSE LET hashes == DOMAIN t.Doc2Hash[uid]
           hit == \E r \in DOMAIN t.Table : \E h \in hashes : h \in DOMAIN t.Table[r]
       IN [t |-> [Table |-> [r \in DOMAIN t.Table |->
                     [h \in {x \in DOMAIN t.Table[r] : x \notin hashes} |-> t.Table[r][h]]],
                  Doc2Hash |-> Del(t.Doc2Hash, uid)],
           err |-> IF hit THEN NIL ELSE ErrHashNotFound]

\* Table.Delete that reports an unknown uid as success
TableDelete_NoError(t, uid) ==
  IF uid \notin DOMAIN t.Doc2Hash THEN [t |-> t, err |-> NIL]
  ELSE LET hashes == DOMAIN t.Doc2Hash[uid]
       IN [t |-> [Table |-> [r \in DOMAIN t.Table |->
                     [h \in {x \in DOMAIN t.Table[r] :
                               ~(x \in hashes /\ IsEmpty(CheckedRemove(t.Table[r][x], uid)))} |->
                        IF h \in hashes THEN CheckedRemove(t.Table[r][h], uid)
                        ELSE t.Table[r][h]]],
                  Doc2Hash |-> Del(t.Doc2Hash, uid)],
           err |-> NIL]

\* Table.Delete: in every row, every bucket of a hash recorded for uid loses
\* uid and is dropped when that leaves it empty; the error stays HashNotFound
\* when no row has any such bucket
TableDelete(t, uid) ==
  IF uid \notin DOMAIN t.Doc2Hash THEN [t |-> t, err |-> DocumentNotStored]
  ELSE LET hashes == DOMAIN t.Doc2Hash[uid]
           hit == \E r \in DOMAIN t.Table : \E h \in hashes : h \in DOMAIN t.Table[r]
       IN [t |-> [Table |-> [r \in DOMAIN t.Table |->
                     [h \in {x \in DOMAIN t.Table[r] :
                               ~(x \in hashes /\ IsEmpty(CheckedRemove(t.Table[r][x], uid)))} |->
                        IF h \in hashes THEN CheckedRemove(t.Table[r][h], uid)
                        ELSE t.Table[r][h]]],
                  Doc2Hash |-> Del(t.Doc2Hash, uid)],
           err |-> IF hit THEN NIL ELSE ErrHashNotFound]

-----------------------------------------------------------------------------
(* forwardindex *)

\* the loop of InMemory.Index without the zeros between the end of the stored
\* vector and the first sample written
RECURSIVE Extend_NoPadding(_, _, _, _)
Extend_NoPadding(cdVec, origVec, offset, i) ==
  IF i > Len(origVec) THEN cdVec
  ELSE LET idx == (i - 1) + offset
       IN IF idx < Len(cdVec)
          THEN Extend_NoPadding([cdVec EXCEPT ![idx + 1] = origVec[i]], origVec, offset, i + 1)
          ELSE Extend_NoPadding(Append(cdVec, origVec[i]), origVec, offset, i + 1)

\* the loop of InMemory.Index from position i of origVec on
RECURSIVE Extend(_, _, _, _)
Extend(cdVec, origVec, offset, i) ==
  IF i > Len(origVec) THEN cdVec
  ELSE LET idx == (i - 1) + offset         \* 0-based position in cdVec
           zeroPad == idx - Len(cdVec)
       IN IF idx < Len(cdVec)
          THEN Extend([cdVec EXCEPT ![idx + 1] = origVec[i]], origVec, offset, i + 1)
          ELSE Extend(Append(IF zeroPad > 0
                             THEN cdVec \o [k \in 1..zeroPad |-> 0]
                             ELSE cdVec,
                             origVec[i]),
                      origVec, offset, i + 1)

\* InMemory.Index, the offset in samples of d from the stored document:
\* dIdx - cdIdx, each the time index divided by SamplePeriod
SampleOffset(currDoc, d) ==
  LET dIdx == Quo(d.Index, Cfg.SamplePeriod)
      cdIdx == Quo(currDoc.Index, Cfg.SamplePeriod)
  IN dIdx - cdIdx

\* InMemory.Index that stores a document of the past in place of the entry
DocsIndex_ReplaceOnPast(docs, d) ==
  IF d.UID \in DOMAIN docs
  THEN LET currDoc == docs[d.UID]
           offset == SampleOffset(currDoc, d)
       IN IF offset > 0
          THEN Put(docs, d.UID, [Index |-> currDoc.Index,
                                 Vector |-> Extend(currDoc.Vector, d.Vector, offset, 1)])
          ELSE Put(docs, d.UID, [Index |-> d.Index, Vector |-> d.Vector])
  ELSE Put(docs, d.UID, [Index |-> d.Index, Vector |-> d.Vector])

\* InMemory.Index
DocsIndex(docs, d) ==
  IF d.UID \in DOMAIN docs
  THEN LET currDoc == docs[d.UID]
           offset == SampleOffset(currDoc, d)
           cdVec == IF offset > 0 THEN Extend(currDoc.Vector, d.Vector, offset, 1)
                    ELSE currDoc.Vector
       IN Put(docs, d.UID, [Index |-> currDoc.Index, Vector |-> cdVec])
  ELSE Put(docs, d.UID, [Index |-> d.Index, Vector |-> d.Vector])

\* InMemory.GetVector returning the stored slice itself instead of a copy
GetVector_NoCopy(docs, uid, idx) ==
  IF uid \notin DOMAIN docs
  THEN [nil |-> TRUE, panic |-> FALSE, vec |-> <<>>, shared |-> FALSE, start |-> 0]
  ELSE LET vec == docs[uid].Vector
           dIdx == docs[uid].Index
           startOffset == Quo(idx - dIdx, Cfg.SamplePeriod)
           end0 == startOffset + Cfg.VectorLength
           endOffset == IF end0 > Len(vec) THEN Len(vec) ELSE end0
       IN IF startOffset < 0 \/ startOffset > endOffset
          THEN [nil |-> FALSE, panic |-> TRUE, vec |-> <<>>, shared |-> FALSE, start |-> 0]
          ELSE [nil |-> FALSE, panic |-> FALSE,
                vec |-> [i \in 1..Cfg.VectorLength |->
                           IF startOffset + i <= endOffset THEN vec[startOffset + i] ELSE 0],
                shared |-> TRUE, start |-> startOffset]

\* InMemory.GetVector returning the zeroed buffer for an unknown uid
GetVector_ZeroForMissing(docs, uid, idx) ==
  IF uid \notin DOMAIN docs
  THEN [nil |-> FALSE, panic |-> FALSE, vec |-> [i \in 1..Cfg.VectorLength |-> 0],
        shared |-> FALSE, start |-> 0]
  ELSE LET vec == docs[uid].Vector
           dIdx == docs[uid].Index
           startOffset == Quo(idx - dIdx, Cfg.SamplePeriod)
           end0 == startOffset + Cfg.VectorLength
           endOffset == IF end0 > Len(vec) THEN Len(vec) ELSE end0
       IN IF startOffset < 0 \/ startOffset > endOffset
          THEN [nil |-> FALSE, panic |-> TRUE, vec |-> <<>>, shared |-> FALSE, start |-> 0]
          ELSE [nil |-> FALSE, panic |-> FALSE,
                vec |-> [i \in 1..Cfg.VectorLength |->
                           IF startOffset + i <= endOffset THEN vec[startOffset + i] ELSE 0],
                shared |-> FALSE, start |-> startOffset]

\* InMemory.GetVector: nil for an unknown uid; the slice vec[startOffset:endOffset]
\* panics when startOffset < 0 or startOffset > endOffset; the vector returned
\* is a fresh buffer (shared is FALSE: writes to it do not reach the stored
\* vector, of which start is the offset copied from)
GetVector(docs, uid, idx) ==
  IF uid \notin DOMAIN docs
  THEN [nil |-> TRUE, panic |-> FALSE, vec |-> <<>>, shared |-> FALSE, start |-> 0]
  ELSE LET vec == docs[uid].Vector
           dIdx == docs[uid].Index
           startOffset == Quo(idx - dIdx, Cfg.SamplePeriod)
           end0 == startOffset + Cfg.VectorLength
           endOffset == IF end0 > Len(vec) THEN Len(vec) ELSE end0
       IN IF startOffset < 0 \/ startOffset > endOffset
          THEN [nil |-> FALSE, panic |-> TRUE, vec |-> <<>>, shared |-> FALSE, start |-> 0]
          ELSE [nil |-> FALSE, panic |-> FALSE,
                vec |-> [i \in 1..Cfg.VectorLength |->
                           IF startOffset + i <= endOffset THEN vec[startOffset + i] ELSE 0],
                shared |-> FALSE, start |-> startOffset]

\* InMemory.Delete
DocsDelete_Keep(docs, uid) == docs

DocsDelete(docs, uid) == Del(docs, uid)

\* InMemory.Size
Size(docs) == Cardinality(DOMAIN docs)

-----------------------------------------------------------------------------
(* options *)

ErrInvalidNumToReturn == "InvalidNumToReturn"
ErrInvalidThreshold == "InvalidThreshold"
ErrInvalidSignFilter == "InvalidSignFilter"

AllLags == -1
SignFilter_POS == 1
SignFilter_NEG == -1
SignFilter_ANY == 0

\* a float64 threshold as the fraction n/d, d > 0
Frac(n, d) == [n |-> n, d |-> d]

\* options.NewDefaultSearch
NewDefaultSearch ==
  [NumToReturn |-> 10, Threshold |-> Frac(17, 20), SignFilter |-> SignFilter_ANY,
   MaxLag |-> 900]

\* Search.Validate that checks the threshold before NumToReturn
SearchValidate_ThresholdFirst(s) ==
  IF s.Threshold.n < 0 \/ s.Threshold.n > s.Threshold.d
  THEN [err |-> ErrInvalidThreshold, s |-> s]
  ELSE IF s.NumToReturn < 1 THEN [err |-> ErrInvalidNumToReturn, s |-> s]
  ELSE IF s.SignFilter \notin {SignFilter_ANY, SignFilter_NEG, SignFilter_POS}
       THEN [err |-> ErrInvalidSignFilter, s |-> s]
  ELSE [err |-> NIL, s |-> IF s.MaxLag < AllLags THEN [s EXCEPT !.MaxLag = AllLags] ELSE s]

\* Search.Validate: the error and the options as the call leaves them
SearchValidate(s) ==
  IF s.NumToReturn < 1 THEN [err |-> ErrInvalidNumToReturn, s |-> s]
  ELSE IF s.Threshold.n < 0 \/ s.Threshold.n > s.Threshold.d
       THEN [err |-> ErrInvalidThreshold, s |-> s]
  ELSE IF s.SignFilter \notin {SignFilter_ANY, SignFilter_NEG, SignFilter_POS}
       THEN [err |-> ErrInvalidSignFilter, s |-> s]
  ELSE [err |-> NIL, s |-> IF s.MaxLag < AllLags THEN [s EXCEPT !.MaxLag = AllLags] ELSE s]

-----------------------------------------------------------------------------
(* results *)

\* a float64 score: NaN, or sgn * sqrt(num/den) with num/den reduced
NaN == [nan |-> TRUE, sgn |-> 0, num |-> 0, den |-> 1]

Float(sgn, num, den) ==
  LET g == Gcd(num, den)
  IN [nan |-> FALSE, sgn |-> IF num = 0 THEN 0 ELSE sgn, num |-> num \div g, den |-> den \div g]

\* math.Abs(a) < math.Abs(b); false when either is NaN
AbsLess(a, b) == ~a.nan /\ ~b.nan /\ a.num * b.den < b.num * a.den

\* math.Abs(a) >= th for a threshold fraction th; false when a is NaN
AbsAtLeast(a, th) ==
  ~a.nan /\ (th.n <= 0 \/ a.num * th.d * th.d >= th.n * th.n * a.den)

\* stat.Correlation(x, y, nil): Pearson correlation, NaN when either vector
\* has no variance
Correlation(x, y) ==
  LET n == Len(x)
      sx == SumSeq(x)
      sy == SumSeq(y)
      cxy == n * Dot(x, y) - sx * sy
      cxx == n * Dot(x, x) - sx * sx
      cyy == n * Dot(y, y) - sy * sy
  IN IF cxx = 0 \/ cyy = 0 THEN NaN
     ELSE Float(IF cxy > 0 THEN 1 ELSE IF cxy < 0 THEN -1 ELSE 0, cxy * cxy, cxx * cyy)

\* stat.StdDev(vec, nil) == 0: the sample variance divides by n - 1, so a
\* vector of one component has standard deviation NaN, which is not 0
StdDevIsZero(vec) ==
  Len(vec) >= 2 /\ \A i \in 1..Len(vec) : vec[i] = vec[1]

\* results.Score
Score(uid, index, score) == [UID |-> uid, Index |-> index, Score |-> score]

\* results.New
NewResults(topN, threshold, signFilter) ==
  [TopN |-> topN, Threshold |-> threshold, SignFilter |-> signFilter,
   scores |-> <<>>, NumScored |-> 0, panic |-> FALSE]

\* Scores.Less on two entries
LessScore(a, b) ==
  IF AbsLess(a.Score, b.Score) THEN TRUE
  ELSE IF AbsLess(b.Score, a.Score) THEN FALSE
  ELSE IF a.Index < b.Index THEN TRUE
  ELSE IF a.Index > b.Index THEN FALSE
  ELSE a.UID < b.UID

\* Scores.Less(i, j), Scores.Swap(i, j): i, j count from 0 as in the code
Less(s, i, j) == LessScore(s[i + 1], s[j + 1])

Swap(s, i, j) == [s EXCEPT ![i + 1] = s[j + 1], ![j + 1] = s[i + 1]]

\* container/heap up
RECURSIVE up(_, _)
up(s, j) ==
  LET i == Quo(j - 1, 2)
  IN IF i = j \/ ~Less(s, j, i) THEN s ELSE up(Swap(s, i, j), i)

\* container/heap down
RECURSIVE down(_, _, _)
down(s, i, n) ==
  LET j1 == 2 * i + 1
      j2 == j1 + 1
      j == IF j2 < n /\ Less(s, j2, j1) THEN j2 ELSE j1
  IN IF j1 >= n THEN s
     ELSE IF ~Less(s, j, i) THEN s
     ELSE down(Swap(s, i, j), j, n)

\* heap.Push(&scores, x)
HeapPush(s, x) == up(Append(s, x), Len(s))

\* heap.Pop(&scores): the popped entry and the remaining heap
HeapPop(s) ==
  LET n == Len(s) - 1
      s2 == down(Swap(s, 0, n), 0, n)
  IN [x |-> s2[n + 1], s |-> SubSeq(s2, 1, n)]

\* Results.passed without the sign filter
passed_NoSign(r, s) == AbsAtLeast(s.Score, r.Threshold)

\* Results.passed
passed(r, s) ==
  /\ AbsAtLeast(s.Score, r.Threshold)
  /\ \/ r.SignFilter = SignFilter_ANY
     \/ (s.Score.sgn > 0 /\ r.SignFilter = SignFilter_POS)
     \/ (s.Score.sgn < 0 /\ r.SignFilter = SignFilter_NEG)

\* Results.Update that replaces the smallest entry by any passing score
Update_AlwaysReplace(r, s) ==
  LET r1 == [r EXCEPT !.NumScored = r.NumScored + 1]
  IN IF ~passed(r1, s) THEN r1
     ELSE IF Len(r1.scores) = r1.TopN
     THEN IF r1.TopN = 0 THEN [r1 EXCEPT !.panic = TRUE]
          ELSE [r1 EXCEPT !.scores = HeapPush(HeapPop(r1.scores).s, s)]
     ELSE [r1 EXCEPT !.scores = HeapPush(r1.scores, s)]

\* Results.Update that counts only the scores that pass
Update_CountPassed(r, s) ==
  LET r1 == [r EXCEPT !.NumScored = r.NumScored + 1]
  IN IF ~passed(r, s) THEN r
     ELSE IF Len(r1.scores) = r1.TopN
     THEN IF r1.TopN = 0 THEN [r1 EXCEPT !.panic = TRUE]
          ELSE IF AbsLess(r1.scores[1].Score, s.Score)
          THEN [r1 EXCEPT !.scores = HeapPush(HeapPop(r1.scores).s, s)]
          ELSE r1
     ELSE [r1 EXCEPT !.scores = HeapPush(r1.scores, s)]

\* Results.Update; r.scores[0] of an empty heap (TopN = 0) panics
Update(r, s) ==
  LET r1 == [r EXCEPT !.NumScored = r.NumScored + 1]
  IN IF ~passed(r1, s) THEN r1
     ELSE IF Len(r1.scores) = r1.TopN
     THEN IF r1.TopN = 0 THEN [r1 EXCEPT !.panic = TRUE]
          ELSE IF AbsLess(r1.scores[1].Score, s.Score)
          THEN [r1 EXCEPT !.scores = HeapPush(HeapPop(r1.scores).s, s)]
          ELSE r1
     ELSE [r1 EXCEPT !.scores = HeapPush(r1.scores, s)]

\* the loop of Results.Fetch: pops fill the result from its last place down
RECURSIVE Drain(_)
Drain(h) ==
  IF h = <<>> THEN <<>>
  ELSE LET p == HeapPop(h) IN Append(Drain(p.s), p.x)

\* Results.Fetch that fills the result from its first place up
Fetch_Forward(r) ==
  LET d == Drain(r.scores)
  IN [scores |-> [i \in 1..Len(d) |-> d[Len(d) + 1 - i]], r |-> [r EXCEPT !.scores = <<>>]]

\* Results.Fetch: the returned scores and the drained collector
Fetch(r) == [scores |-> Drain(r.scores), r |-> [r EXCEPT !.scores = <<>>]]

-----------------------------------------------------------------------------
(* lsh *)

ErrInvalidDocument == "InvalidDocument"
ErrNoVectorComplexity == "NoVectorComplexity"
Panic == "panic"

\* a configs.TransformFunc that returns a new vector and leaves its argument
\* as it is: every sample with its sign inverted
SignInverted(vec) == [i \in 1..Len(vec) |-> -vec[i]]

\* l.Cfg.TFunc(vec): the vector returned and the argument as the call leaves
\* it (the default transform scales its argument in place; a configuration
\* with TFunc set has the transform it names, one without has the default)
TFunc(vec) ==
  IF "TFunc" \in DOMAIN Cfg /\ Cfg.TFunc = "SignInverted"
  THEN [ret |-> SignInverted(vec), arg |-> vec]
  ELSE [ret |-> NewDefaultTransformFunc(vec), arg |-> NewDefaultTransformFunc(vec)]

\* the hyperplanes of table i, drawn by New
Planes(i) == NewHyperplanes(i, Cfg.NumHyperplanes, Cfg.VectorLength)

\* LSH.index that stops after the first table
lsh_index_FirstTableOnly(tables, d, i) ==
  IF i > Len(tables) THEN [tables |-> tables, err |-> NIL]
  ELSE LET r == TableIndex(tables[i], Planes(i), d)
       IN IF r.err # NIL THEN [tables |-> tables, err |-> r.err]
          ELSE [tables |-> [tables EXCEPT ![i] = r.t], err |-> NIL]

\* LSH.index (lsh_index here) over tables i..: stops at the first table that
\* fails and keeps what the tables before it recorded
RECURSIVE lsh_index(_, _, _)
lsh_index(tables, d, i) ==
  IF i > Len(tables) THEN [tables |-> tables, err |-> NIL]
  ELSE LET r == TableIndex(tables[i], Planes(i), d)
       IN IF r.err # NIL THEN [tables |-> tables, err |-> r.err]
          ELSE lsh_index([tables EXCEPT ![i] = r.t], d, i + 1)

\* LSH.Index that checks the complexity of the vector before its length
LSHIndex_ComplexityFirst(tables, docs, d) ==
  IF StdDevIsZero(d.Vector) THEN [tables |-> tables, docs |-> docs, err |-> ErrNoVectorComplexity]
  ELSE IF Len(d.Vector) # Cfg.VectorLength
  THEN [tables |-> tables, docs |-> docs, err |-> ErrInvalidDocument]
  ELSE LET r == lsh_index(tables, [d EXCEPT !.Vector = TFunc(d.Vector).arg], 1)
       IN IF r.err # NIL THEN [tables |-> r.tables, docs |-> docs, err |-> r.err]
          ELSE [tables |-> r.tables, docs |-> DocsIndex(docs, d), err |-> NIL]

\* LSH.Index: the tables see d after the transform ran on its vector, the
\* forward index gets the copy taken on entry
LSHIndex(tables, docs, d) ==
  LET origDoc == d
  IN IF Len(d.Vector) # Cfg.VectorLength
     THEN [tables |-> tables, docs |-> docs, err |-> ErrInvalidDocument]
     ELSE IF StdDevIsZero(d.Vector)
     THEN [tables |-> tables, docs |-> docs, err |-> ErrNoVectorComplexity]
     ELSE LET r == lsh_index(tables, [d EXCEPT !.Vector = TFunc(d.Vector).arg], 1)
          IN IF r.err # NIL THEN [tables |-> r.tables, docs |-> docs, err |-> r.err]
             ELSE [tables |-> r.tables, docs |-> DocsIndex(docs, origDoc), err |-> NIL]

\* the loop of LSH.Delete that ends after the first table
deleteTables_FirstOnly(tables, uid, i, err) ==
  IF i > Len(tables) THEN [tables |-> tables, err |-> err]
  ELSE LET r == TableDelete(tables[i], uid)
       IN [tables |-> [tables EXCEPT ![i] = r.t], err |-> r.err]

\* the loop of LSH.Delete over tables i..: the last error wins
RECURSIVE deleteTables(_, _, _, _)
deleteTables(tables, uid, i, err) ==
  IF i > Len(tables) THEN [tables |-> tables, err |-> err]
  ELSE LET r == TableDelete(tables[i], uid)
       IN deleteTables([tables EXCEPT ![i] = r.t], uid, i + 1,
                       IF r.err # NIL THEN r.err ELSE err)

\* LSH.Delete
LSHDelete(tables, docs, uid) ==
  LET r == deleteTables(tables, uid, 1, NIL)
  IN [tables |-> r.tables, docs |-> DocsDelete(docs, uid), err |-> r.err]

\* the (uid, index) pairs of a uid -> set of index map
Pairs(m) == UNION {{<<uid, index>> : index \in m[uid]} : uid \in DOMAIN m}

\* merging pairs into a uid -> set of index map: only a uid with at least one
\* index gets an entry
Merge(pairs) ==
  [uid \in {p[1] : p \in pairs} |-> {p[2] : p \in {q \in pairs : q[1] = uid}}]

\* LSH.filterDocsByLag: every table's Filter result merged (the goroutines
\* merge under resLock and are all waited for)
filterDocsByLag(tables, d, maxLag) ==
  Merge(UNION {Pairs(TableFilter(tables[i], Planes(i), d, maxLag)) : i \in 1..Len(tables)})

\* LSH.filterDocs
filterDocs(tables, d, s) ==
  LET pos == IF s.SignFilter \in {SignFilter_ANY, SignFilter_POS}
             THEN Pairs(filterDocsByLag(tables, d, s.MaxLag)) ELSE {}
      neg == IF s.SignFilter \in {SignFilter_ANY, SignFilter_NEG}
             THEN Pairs(filterDocsByLag(tables, [d EXCEPT !.Vector = Negate(d.Vector)], s.MaxLag))
             ELSE {}
  IN Merge(pos \cup neg)

\* the orders in which LSH.score can visit docIds (Go's map iteration order is
\* unspecified): the uids in any order and, under each uid, its indexes in
\* any order
RECURSIVE OrdersFor(_, _)
OrdersFor(docIds, uo) ==
  IF uo = <<>> THEN {<<>>}
  ELSE {o1 \o rest : o1 \in Orderings({<<Head(uo), x>> : x \in docIds[Head(uo)]}),
                     rest \in OrdersFor(docIds, Tail(uo))}

ScoreOrders(docIds) == UNION {OrdersFor(docIds, uo) : uo \in Orderings(DOMAIN docIds)}

\* the forward index after vec, taken by GetVector at offset start of uid's
\* stored vector, was overwritten in place: unchanged when vec is a buffer of
\* its own
WrittenThrough(docs, uid, g, vec) ==
  IF ~g.shared THEN docs
  ELSE [docs EXCEPT ![uid].Vector =
          [i \in 1..Len(docs[uid].Vector) |->
             IF i > g.start /\ i <= g.start + Len(vec)
             THEN vec[i - g.start] ELSE docs[uid].Vector[i]]]

\* LSH.score visiting the pairs in the given order: the collector and the
\* forward index it leaves; a panic of GetVector or Update ends the call
RECURSIVE score(_, _, _, _)
score(docs, d, order, r) ==
  IF order = <<>> THEN [r |-> r, docs |-> docs]
  ELSE LET uid == Head(order)[1]
           idx == Head(order)[2]
           g == GetVector(docs, uid, idx)
       IN IF g.panic THEN [r |-> [r EXCEPT !.panic = TRUE], docs |-> docs]
          ELSE IF g.nil THEN score(docs, d, Tail(order), r)
          ELSE LET currDocVec == TFunc(g.vec).arg
                   docs2 == WrittenThrough(docs, uid, g, currDocVec)
                   r2 == Update(r, Score(uid, idx, Correlation(d.Vector, currDocVec)))
               IN IF r2.panic THEN [r |-> r2, docs |-> docs2]
                  ELSE score(docs2, d, Tail(order), r2)

\* options passed as nil
NilOptions ==
  [NumToReturn |-> 0, Threshold |-> Frac(0, 1), SignFilter |-> SignFilter_ANY,
   MaxLag |-> 0, isnil |-> TRUE]

\* options.Search{...}
Options(numToReturn, threshold, signFilter, maxLag) ==
  [NumToReturn |-> numToReturn, Threshold |-> threshold, SignFilter |-> signFilter,
   MaxLag |-> maxLag, isnil |-> FALSE]

\* what a call returned: Search's (scores, num_scored, err), the others' err
Return(err, scores, numScored) == [err |-> err, scores |-> scores, numScored |-> numScored]

\* LSH.Search up to the end of filterDocs: the error, the query after the
\* transform, the options in force and the candidates
SearchFilter(tables, d, s) ==
  LET d1 == [d EXCEPT !.Vector = TFunc(d.Vector).arg]
      v == IF s.isnil THEN [err |-> NIL, s |-> NewDefaultSearch] ELSE SearchValidate(s)
  IN IF Len(d.Vector) # Cfg.VectorLength
     THEN [err |-> ErrInvalidDocument, d |-> d, s |-> s, docIds |-> EmptyMap]
     ELSE IF v.err # NIL THEN [err |-> v.err, d |-> d1, s |-> s, docIds |-> EmptyMap]
     ELSE [err |-> NIL, d |-> d1, s |-> v.s, docIds |-> filterDocs(tables, d1, v.s)]

\* LSH.Search: every (scores, num_scored, err) it can return with the forward
\* index it leaves, one for each order in which score can visit the
\* candidates (filterDocs and the validation only read)
LSHSearch(tables, docs, d, s) ==
  LET f == SearchFilter(tables, d, s)
  IN IF f.err # NIL THEN {[ret |-> Return(f.err, <<>>, 0), docs |-> docs]}
     ELSE {LET sc == score(docs, f.d, order,
                           NewResults(f.s.NumToReturn, f.s.Threshold, f.s.SignFilter))
           IN IF sc.r.panic THEN [ret |-> Return(Panic, <<>>, 0), docs |-> sc.docs]
              ELSE [ret |-> Return(NIL, Fetch(sc.r).scores, sc.r.NumScored), docs |-> sc.docs]
           : order \in ScoreOrders(f.docIds)}

\* tables.New
NewTables(cfg) == [i \in 1..cfg.NumTables |-> NewTable]

\* forwardindex.NewInMemory
NewInMemory == EmptyMap

\* lsh.New: the error and, when it is nil, the engine's tables and forward
\* index (hyperplanes.New and tables.New cannot fail on a validated cfg)
New(cfg) ==
  IF Validate(cfg) # NIL
  THEN [err |-> Validate(cfg), built |-> FALSE, tables |-> <<>>, docs |-> NewInMemory]
  ELSE [err |-> NIL, built |-> TRUE, tables |-> NewTables(cfg), docs |-> NewInMemory]

\* float64 values in [0, 2) whose last bit is at least 2^-57, held as <<hi, lo>>
\* with 0 <= lo < 2^29: the value is (hi * 2^29 + lo) / 2^57
Half29 == 536870912

\* thetaInc := 0.05 (0x1.999999999999ap-5), thetaStart := 0.60
\* (0x1.3333333333333p-1), thetaEnd := 1.0
thetaInc == <<13421772, 429496730>>

thetaStart == <<161061273, 322122544>>

thetaEnd == <<268435456, 0>>

\* the spacing of the float64 values around x, in units of 2^-57: 2^-52 from 1
\* to 2, 2^-53 from 0.5 to 1
Ulp(x) == IF x[1] >= 268435456 THEN 32 ELSE 16

\* the float64 nearest to x, ties to the even one
RoundFloat64(x) ==
  LET u == Ulp(x)
      rest == x[2] % u
      below == x[2] - rest
      goesUp == 2 * rest > u \/ (2 * rest = u /\ (below \div u) % 2 = 1)
      lo == IF goesUp THEN below + u ELSE below
  IN IF lo >= Half29 THEN <<x[1] + 1, lo - Half29>> ELSE <<x[1], lo>>

\* theta += thetaInc
Float64Add(a, b) ==
  LET lo == a[2] + b[2]
  IN RoundFloat64(<<a[1] + b[1] + (lo \div Half29), lo % Half29>>)

\* theta < thetaEnd
Float64Less(a, b) == a[1] < b[1] \/ (a[1] = b[1] /\ a[2] < b[2])

\* math.Acos, math.Pow and the float64 product and difference of LSH.Stats are
\* not evaluated: a probability is the term that LSH.Stats builds from them
TwoOverPi == <<"2/pi">>

Acos(x) == <<"acos", x>>

Mul(x, y) == <<"mul", x, y>>

OneMinus(x) == <<"sub", 1, x>>

Pow(x, n) == <<"pow", x, n>>

\* LSH.Stats, the body of the loop for one theta
FalseNegative_TablesInside(cfg, theta) ==
  LET pdiff == Mul(TwoOverPi, Acos(theta))
      psame == OneMinus(pdiff)
      fneg == Pow(OneMinus(Pow(psame, cfg.NumTables)), cfg.NumHyperplanes)
  IN [Threshold |-> theta, Probability |-> fneg]

FalseNegative(cfg, theta) ==
  LET pdiff == Mul(TwoOverPi, Acos(theta))
      psame == OneMinus(pdiff)
      fneg == Pow(OneMinus(Pow(psame, cfg.NumHyperplanes)), cfg.NumTables)
  IN [Threshold |-> theta, Probability |-> fneg]

\* LSH.Stats, the loop: for theta := thetaStart; theta < thetaEnd; theta += thetaInc
RECURSIVE FalseNegativeErrors(_, _, _)
FalseNegativeErrors(cfg, theta, acc) ==
  IF Float64Less(theta, thetaEnd)
  THEN FalseNegativeErrors(cfg, Float64Add(theta, thetaInc),
                           Append(acc, FalseNegative(cfg, theta)))
  ELSE acc

\* LSH.Stats
LSHStats(cfg, docs) ==
  [NumDocs |-> Size(docs),
   FalseNegativeErrors |-> FalseNegativeErrors(cfg, thetaStart, <<>>)]

-----------------------------------------------------------------------------
(* The engine driven by Index, Delete and Search calls *)

\* the configuration the engine is constructed with
EngineCfg ==
  [NumHyperplanes |-> 2, NumTables |-> 2, VectorLength |-> 3, SamplePeriod |-> 2,
   RowSize |-> 2]

\* vectors offered to Index: two of the configured length that the transform
\* changes, a constant one and a constant one of another length
DocVectors == {<<0, 2, 4>>, <<4, 2, 0>>, <<1, 1, 1>>, <<1, 1>>}

\* vectors offered to Search
QueryVectors == {<<0, 2, 4>>, <<0, 0, 2>>}

Thresholds == {Frac(0, 1), Frac(9, 10), Frac(1, 1)}

SignFilters == {SignFilter_POS, SignFilter_NEG, SignFilter_ANY}

\* queries and options with each validated field valid or not, alone and
\* several at once, and nil options
InvalidSearchInputs ==
  {<<NewSimple(0, 0, v), Options(n, th, sf, AllLags)>> :
     v \in {<<0, 2, 4>>}, n \in {0, 1}, th \in {Frac(-1, 2), Frac(1, 1), Frac(3, 2)},
     sf \in {SignFilter_ANY, 2}}
  \cup {<<NewSimple(0, 0, <<1, 2>>), Options(0, Frac(3, 2), 2, AllLags)>>,
        <<NewSimple(0, 0, <<1, 2>>), NilOptions>>,
        <<NewSimple(0, 0, <<0, 2, 4>>), NilOptions>>}

\* the queries and options offered to Search: every sign filter, threshold and
\* NumToReturn over all lags at one time index, every time index and lag for
\* one sign filter, and a query of the wrong length
SearchInputs ==
  {<<NewSimple(0, 0, v), Options(n, th, sf, AllLags)>> :
     v \in QueryVectors, n \in {1, MaxOps}, th \in Thresholds, sf \in SignFilters}
  \cup {<<NewSimple(0, t, <<0, 2, 4>>), Options(MaxOps, th, SignFilter_POS, lag)>> :
     t \in Times, th \in {Frac(0, 1), Frac(1, 1)}, lag \in {0, 1}}
  \cup {<<NewSimple(0, 0, <<1, 2>>), Options(1, Frac(0, 1), SignFilter_ANY, AllLags)>>}
  \cup InvalidSearchInputs

NoDoc == NewSimple(0, 0, <<>>)

\* the record of a call: its name, its arguments, what it returned
Call(op, d, uid, s, r) == [op |-> op, d |-> d, uid |-> uid, s |-> s, r |-> r]

NoCall == Call("none", NoDoc, 0, NilOptions, Return(NIL, <<>>, 0))

\* no calls in flight
NoThreads == [on |-> FALSE]

Init ==
  /\ Cfg = EngineCfg
  /\ built = New(EngineCfg).built
  /\ Tables = New(EngineCfg).tables
  /\ Docs = New(EngineCfg).docs
  /\ ret = NoCall
  /\ indexed = {}
  /\ nops = 0
  /\ res = NewResults(0, Frac(0, 1), SignFilter_ANY)
  /\ offered = <<>>
  /\ threads = NoThreads

\* the record of a call of LSH.Stats
StatsRecord(st) ==
  [op |-> "Stats", d |-> NoDoc, uid |-> 0, s |-> NilOptions,
   r |-> Return(NIL, <<>>, 0), stats |-> st]

\* A call that leaves the engine as it was (a Search, a Filter, a Stats, a rejected Index, a
\* Delete of a uid that is not stored) is the last call of a run of the model:
\* every call that could follow it is explored from the state before it, to
\* which it is equal in Tables and Docs.
Ready == built /\ ret.op \notin {"Search", "Filter", "Stats"} /\ ret.r.err = NIL

\* a call of LSH.Index(d)
Index(d) ==
  LET r == LSHIndex(Tables, Docs, d)
      changed == r.tables # Tables \/ r.docs # Docs
  IN /\ Ready
     /\ changed => nops < MaxOps
     /\ Tables' = r.tables
     /\ Docs' = r.docs
     /\ ret' = Call("Index", d, d.UID, NilOptions, Return(r.err, <<>>, 0))
     /\ indexed' = IF r.err = NIL THEN indexed \cup {d} ELSE indexed
     /\ nops' = IF changed THEN nops + 1 ELSE nops
     /\ UNCHANGED <<Cfg, built, res, offered, threads>>

\* a call of LSH.Delete(uid)
Delete(uid) ==
  LET r == LSHDelete(Tables, Docs, uid)
      changed == r.tables # Tables \/ r.docs # Docs
  IN /\ Ready
     /\ changed => nops < MaxOps
     /\ Tables' = r.tables
     /\ Docs' = r.docs
     /\ ret' = Call("Delete", NoDoc, uid, NilOptions, Return(r.err, <<>>, 0))
     /\ indexed' = {d \in indexed : d.UID # uid}
     /\ nops' = IF changed THEN nops + 1 ELSE nops
     /\ UNCHANGED <<Cfg, built, res, offered, threads>>

\* a call of LSH.Search(d, s)
Search(d, s) ==
  /\ Ready
  /\ \E r \in LSHSearch(Tables, Docs, d, s) :
        /\ ret' = Call("Search", d, 0, s, r.ret)
        /\ Docs' = r.docs
  /\ UNCHANGED <<Cfg, built, Tables, indexed, nops, res, offered, threads>>

\* a call of LSH.Stats()
Stats ==
  /\ Ready
  /\ ret' = StatsRecord(LSHStats(Cfg, Docs))
  /\ UNCHANGED <<Cfg, built, Tables, Docs, indexed, nops, res, offered, threads>>

Next ==
  \/ \E uid \in UIDs, t \in Times, v \in DocVectors : Index(NewSimple(uid, t, v))
  \/ \E uid \in UIDs : Delete(uid)
  \/ \E q \in SearchInputs : Search(q[1], q[2])
  \/ Stats

Spec == Init /\ [][Next]_vars

-----------------------------------------------------------------------------
(* The engine constructed with the default or with a configured transform *)

\* the configuration with cfg.TFunc set to a transform that returns a new
\* vector
TransformCfg ==
  [NumHyperplanes |-> 2, NumTables |-> 2, VectorLength |-> 3, SamplePeriod |-> 2,
   RowSize |-> 2, TFunc |-> "SignInverted"]

\* vectors offered to Index and Search under either transform
TransformVectors == {<<0, 2, 4>>, <<4, 2, 0>>, <<1, 1, 3>>, <<3, 1, 1>>}

TransformQueries ==
  {<<NewSimple(0, t, v), Options(2, Frac(0, 1), SignFilter_ANY, 0)>> :
     t \in {0, 2}, v \in TransformVectors}

InitTransform ==
  /\ Cfg \in {EngineCfg, TransformCfg}
  /\ built = New(EngineCfg).built
  /\ Tables = New(EngineCfg).tables
  /\ Docs = New(EngineCfg).docs
  /\ ret = NoCall
  /\ indexed = {}
  /\ nops = 0
  /\ res = NewResults(0, Frac(0, 1), SignFilter_ANY)
  /\ offered = <<>>
  /\ threads = NoThreads

NextTransform ==
  \/ \E uid \in UIDs, t \in {0, 2}, v \in TransformVectors : Index(NewSimple(uid, t, v))
  \/ \E uid \in UIDs : Delete(uid)
  \/ \E q \in TransformQueries : Search(q[1], q[2])

SpecTransform == InitTransform /\ [][NextTransform]_vars

-----------------------------------------------------------------------------
(* A results.Results collector driven by Update and Fetch calls *)

\* the scores offered to Update: NaN, both signs of one magnitude and a
\* smaller magnitude, under uids and time indices that tie and that differ
ScoreValues == {NaN, Float(-1, 1, 1), Float(1, 1, 1), Float(1, 1, 4)}

OfferedScores ==
  {Score(k[1], k[2], v) : k \in {<<1, 0>>, <<2, 0>>, <<1, 1>>}, v \in ScoreValues}

ResultsThresholds == {Frac(0, 1), Frac(1, 2), Frac(9, 10)}

InitResults ==
  /\ Cfg = EngineCfg
  /\ built = FALSE
  /\ Tables = <<>>
  /\ Docs = EmptyMap
  /\ ret = NoCall
  /\ indexed = {}
  /\ nops = 0
  /\ res \in {NewResults(n, th, sf) :
                n \in 0..MaxTopN, th \in ResultsThresholds, sf \in SignFilters}
  /\ offered = <<>>
  /\ threads = NoThreads

\* a call of res.Update(s); offered restarts with the first Update after a Fetch
UpdateCall(s) ==
  /\ ~res.panic
  /\ res.NumScored < MaxOffered
  /\ res' = Update(res, s)
  /\ offered' = Append(IF ret.op = "Fetch" THEN <<>> ELSE offered, s)
  /\ ret' = Call("Update", NoDoc, 0, NilOptions, Return(NIL, <<>>, 0))
  /\ UNCHANGED <<Cfg, built, Tables, Docs, indexed, nops, threads>>

\* a call of res.Fetch()
FetchCall ==
  /\ ~res.panic
  /\ ret.op # "Fetch"
  /\ res' = Fetch(res).r
  /\ ret' = Call("Fetch", NoDoc, 0, NilOptions, Return(NIL, Fetch(res).scores, res.NumScored))
  /\ UNCHANGED <<Cfg, built, Tables, Docs, indexed, nops, offered, threads>>

NextResults ==
  \/ \E s \in OfferedScores : UpdateCall(s)
  \/ FetchCall

SpecResults == InitResults /\ [][NextResults]_vars

-----------------------------------------------------------------------------
(* lsh.New called with any configuration *)

CfgInputs ==
  [NumHyperplanes : {-1, 0, 1, maxNumHyperplanes, maxNumHyperplanes + 1},
   NumTables : -1..2, VectorLength : -1..2, SamplePeriod : -1..2, RowSize : -1..2]

InitNew ==
  /\ Cfg \in CfgInputs
  /\ built = FALSE
  /\ Tables = <<>>
  /\ Docs = EmptyMap
  /\ ret = NoCall
  /\ indexed = {}
  /\ nops = 0
  /\ res = NewResults(0, Frac(0, 1), SignFilter_ANY)
  /\ offered = <<>>
  /\ threads = NoThreads

\* a call of lsh.New(Cfg)
NewCall ==
  /\ ret.op = "none"
  /\ built' = New(Cfg).built
  /\ Tables' = New(Cfg).tables
  /\ Docs' = New(Cfg).docs
  /\ ret' = Call("New", NoDoc, 0, NilOptions, Return(New(Cfg).err, <<>>, 0))
  /\ UNCHANGED <<Cfg, indexed, nops, res, offered, threads>>

NextNew == NewCall

SpecNew == InitNew /\ [][NextNew]_vars

\* a call of LSH.Stats on the engine that lsh.New(Cfg) built
StatsCall ==
  /\ ret.op = "New" /\ built
  /\ ret' = StatsRecord(LSHStats(Cfg, Docs))
  /\ UNCHANGED <<Cfg, built, Tables, Docs, indexed, nops, res, offered, threads>>

NextStats == NewCall \/ StatsCall

SpecStats == InitNew /\ [][NextStats]_vars

-----------------------------------------------------------------------------
(* The tables of the engine queried directly with Table.Filter *)

\* the queries and lags Table.Filter is called with: every time index, both
\* transformed document vectors, every lag from 0 to MaxTime
FilterQueries ==
  {NewSimple(0, t, NewDefaultTransformFunc(v)) : t \in Times, v \in {<<0, 2, 4>>, <<4, 2, 0>>}}

FilterLags == 0..MaxTime

\* the searches with a lag
LagSearchInputs == {q \in SearchInputs : ~q[2].isnil /\ q[2].MaxLag >= 0}

\* a call of Tables[i].Filter(q, lag): pairs is the map returned, as the set
\* of its (uid, time index) pairs, rows the row keys it looked up
FilterCall(i, q, lag) ==
  /\ Ready
  /\ ret' = [op |-> "Filter", d |-> q, uid |-> 0,
             s |-> Options(0, Frac(0, 1), SignFilter_ANY, lag),
             r |-> Return(NIL, <<>>, 0),
             table |-> i,
             rows |-> FilterRows(q, lag),
             pairs |-> Pairs(TableFilter(Tables[i], Planes(i), q, lag))]
  /\ UNCHANGED <<Cfg, built, Tables, Docs, indexed, nops, res, offered, threads>>

NextFilter ==
  \/ \E uid \in UIDs, t \in Times, v \in DocVectors : Index(NewSimple(uid, t, v))
  \/ \E uid \in UIDs : Delete(uid)
  \/ \E i \in 1..Len(Tables), q \in FilterQueries, lag \in FilterLags : FilterCall(i, q, lag)
  \/ \E q \in LagSearchInputs : Search(q[1], q[2])

SpecFilter == Init /\ [][NextFilter]_vars

-----------------------------------------------------------------------------
(* the four hash variants applied to sets of planes and to vectors *)

HashWidths == {8, 16, 32, 64}

\* numbers of planes around the width of a code: one plane, a last byte that
\* is not full, every bit used, one plane too many
HashPlaneCounts(w) == {1, w - 1, w, w + 1}

\* the random draws of the planes that are tried
HashDraws == 1..3

\* vectors of the length of the planes (2) with dot products > 0, = 0 and < 0,
\* the empty vector and a vector of another length
HashVectors ==
  {<<>>, <<1>>, <<1, 0>>, <<0, 0>>, <<1, -1>>, <<-1, 2>>, <<1, 1>>, <<-2, -1>>}

HashCallRecord(w, planes, f, r) ==
  [op |-> "Hash", bits |-> w, planes |-> planes, d |-> NewSimple(0, 0, f),
   uid |-> 0, s |-> NilOptions, r |-> r]

Hash8Call ==
  /\ ret.op = "none"
  /\ \E n \in HashPlaneCounts(8), t \in HashDraws, f \in HashVectors :
        LET planes == NewHyperplanes(t, n, 2)
        IN ret' = HashCallRecord(8, planes, f, Hash8(planes, f))
  /\ UNCHANGED <<Cfg, built, Tables, Docs, indexed, nops, res, offered, threads>>

Hash16Call ==
  /\ ret.op = "none"
  /\ \E n \in HashPlaneCounts(16), t \in HashDraws, f \in HashVectors :
        LET planes == NewHyperplanes(t, n, 2)
        IN ret' = HashCallRecord(16, planes, f, Hash16(planes, f))
  /\ UNCHANGED <<Cfg, built, Tables, Docs, indexed, nops, res, offered, threads>>

Hash32Call ==
  /\ ret.op = "none"
  /\ \E n \in HashPlaneCounts(32), t \in HashDraws, f \in HashVectors :
        LET planes == NewHyperplanes(t, n, 2)
        IN ret' = HashCallRecord(32, planes, f, Hash32(planes, f))
  /\ UNCHANGED <<Cfg, built, Tables, Docs, indexed, nops, res, offered, threads>>

Hash64Call ==
  /\ ret.op = "none"
  /\ \E n \in HashPlaneCounts(64), t \in HashDraws, f \in HashVectors :
        LET planes == NewHyperplanes(t, n, 2)
        IN ret' = HashCallRecord(64, planes, f, Hash64(planes, f))
  /\ UNCHANGED <<Cfg, built, Tables, Docs, indexed, nops, res, offered, threads>>

NextHash == Hash8Call \/ Hash16Call \/ Hash32Call \/ Hash64Call

SpecHash == Init /\ [][NextHash]_vars

-----------------------------------------------------------------------------
(* the forward index driven directly, as LSH.Index drives it: documents of
   one uid with vectors of the configured length, at time indexes that are
   and are not multiples of SamplePeriod *)

MaxFwdOps == 3

MaxFwdTime == 10

FwdDocs ==
  {NewSimple(1, t, v) : t \in -2..MaxFwdTime, v \in {<<1, 2, 3>>, <<4, 5, 6>>}}

\* a call of l.Docs.Index(d); a GetVector, which only reads, is the last call
\* of a run: what could follow it is explored from the state before it
DocsIndexCall(d) ==
  /\ built
  /\ ret.op # "GetVector"
  /\ nops < MaxFwdOps
  /\ Docs' = DocsIndex(Docs, d)
  /\ ret' = Call("DocsIndex", d, d.UID, NilOptions, Return(NIL, <<>>, 0))
  /\ nops' = nops + 1
  /\ UNCHANGED <<Cfg, built, Tables, indexed, res, offered, threads>>

\* a call of l.Docs.GetVector(uid, idx), of the stored uid and of another
GetVectorCall(uid, idx) ==
  /\ built
  /\ ret.op # "GetVector"
  /\ ret' = [op |-> "GetVector", d |-> NewSimple(uid, idx, <<>>), uid |-> uid,
             s |-> NilOptions, r |-> Return(NIL, <<>>, 0), g |-> GetVector(Docs, uid, idx)]
  /\ UNCHANGED <<Cfg, built, Tables, Docs, indexed, nops, res, offered, threads>>

NextForward ==
  \/ \E d \in FwdDocs : DocsIndexCall(d)
  \/ \E uid \in UIDs, idx \in -2..(MaxFwdTime + 2) : GetVectorCall(uid, idx)

SpecForward == Init /\ [][NextForward]_vars

-----------------------------------------------------------------------------
(* A Search running together with an Index or a Delete on one engine.  Each
   thread advances by the calls it makes on one table or on the forward
   index; the goroutines that filterDocsByLag starts, one for each table, run
   in any order.  A step carries the accesses its code makes to the shared maps:
   the bucket map of a table (t.Table and its rows), its reverse
   index (t.Doc2Hash and its entries) and the map of the forward index, each
   with the locks held at the access.  The only locks of the code are those
   of the bitmaps (and resLock, which guards the merged result only). *)

MaxPopulated == 2

ConcDocs ==
  {NewSimple(uid, t, v) : uid \in UIDs, t \in {0, 2}, v \in {<<0, 2, 4>>, <<4, 2, 0>>}}

ConcQueries ==
  {<<NewSimple(0, 0, <<0, 2, 4>>), Options(2, Frac(0, 1), SignFilter_ANY, 0)>>,
   <<NewSimple(0, 2, <<0, 2, 4>>), Options(1, Frac(9, 10), SignFilter_POS, 2)>>}

\* the calls of the writer
ConcWrites ==
  {[op |-> "Index", d |-> d, uid |-> d.UID] : d \in ConcDocs}
     \cup {[op |-> "Delete", d |-> NoDoc, uid |-> uid] : uid \in UIDs}

Access(obj, write, locks) == [obj |-> obj, write |-> write, locks |-> locks]

\* Table.Filter on table i: t.Table and its rows are read with no lock held,
\* t.Doc2Hash[uid][hash] is read between rb.Lock() and rb.Unlock() of the
\* bitmap of the row
FilterAccesses(t, i, planes, d, maxLag) ==
  LET h == Hash16(planes, d.Vector).hash
      startRow == RowIndex(d.Index - maxLag)
      endRow == RowIndex(d.Index + maxLag)
      rows == Quo(endRow - startRow, Cfg.RowSize) + 1
      visited == IF maxLag > -1
                 THEN {r \in DOMAIN t.Table :
                         \E k \in 0..(rows - 1) : r = startRow + k * Cfg.RowSize}
                 ELSE DOMAIN t.Table
  IN {Access(<<"bucket", i>>, FALSE, {})}
       \cup {Access(<<"reverse", i>>, FALSE, {<<i, r, h>>}) :
               r \in {x \in visited : h \in DOMAIN t.Table[x]}}

\* Table.Index on table i: t.Table[rowIndex] and tbl[hash] are read, and
\* written when absent; t.Doc2Hash[uid] is read and hashTimestamps[hash]
\* written; no lock is held at any of them (rb.Add locks the bitmap for the
\* add alone)
IndexAccesses(t, i, planes, d) ==
  LET h == Hash16(planes, d.Vector).hash
      rowIndex == RowIndex(d.Index)
  IN {Access(<<"bucket", i>>,
             rowIndex \notin DOMAIN t.Table \/ h \notin DOMAIN t.Table[rowIndex], {}),
      Access(<<"reverse", i>>, TRUE, {})}

\* Table.Delete on table i: t.Doc2Hash[uid] is read; for a stored uid the rows
\* of t.Table are read, a bitmap left empty is deleted from its row, and the
\* uid is deleted from t.Doc2Hash; no lock is held at any of them
DeleteAccesses(t, i, uid) ==
  IF uid \notin DOMAIN t.Doc2Hash THEN {Access(<<"reverse", i>>, FALSE, {})}
  ELSE {Access(<<"reverse", i>>, TRUE, {}),
        Access(<<"bucket", i>>,
               \E r \in DOMAIN t.Table : \E h \in DOMAIN t.Doc2Hash[uid] :
                  h \in DOMAIN t.Table[r] /\ IsEmpty(CheckedRemove(t.Table[r][h], uid)),
               {})}

\* InMemory.GetVector reads i.docs, InMemory.Index and InMemory.Delete write
\* it; the forward index has no lock
ForwardAccess(write) == Access(<<"forward">>, write, {})

\* the query that the goroutines of the current pass filter with
Filtering == Head(threads.s.passes)

\* the accesses of the steps that the searcher can take next
SearchAccesses ==
  IF ~threads.on THEN {}
  ELSE IF threads.s.pc = "filter"
  THEN UNION {FilterAccesses(Tables[i], i, Planes(i), Filtering, threads.s.opts.MaxLag) :
                i \in threads.s.pending}
  ELSE IF threads.s.pc = "score" /\ threads.s.pairs # {} THEN {ForwardAccess(FALSE)}
  ELSE {}

\* the accesses of the step that the writer takes next
WriterAccesses ==
  IF ~threads.on THEN {}
  ELSE IF threads.w.pc = "tables"
  THEN IF threads.w.op = "Index"
       THEN IndexAccesses(Tables[threads.w.next], threads.w.next, Planes(threads.w.next),
                          threads.w.d)
       ELSE DeleteAccesses(Tables[threads.w.next], threads.w.next, threads.w.uid)
  ELSE IF threads.w.pc = "forward" THEN {ForwardAccess(TRUE)}
  ELSE {}

\* two accesses of different threads to one map, one of them a write, with no
\* lock held at both
Races(a, b) == a.obj = b.obj /\ (a.write \/ b.write) /\ a.locks \cap b.locks = {}

\* LSH.filterDocs: the queries of its calls of filterDocsByLag, in order
Passes(d, s) ==
  (IF s.SignFilter \in {SignFilter_ANY, SignFilter_POS} THEN <<d>> ELSE <<>>)
     \o (IF s.SignFilter \in {SignFilter_ANY, SignFilter_NEG}
         THEN <<[d EXCEPT !.Vector = Negate(d.Vector)]>> ELSE <<>>)

\* an Index that fills the engine before the two calls start
Populate(d) ==
  /\ ~threads.on
  /\ nops < MaxPopulated
  /\ Index(d)

\* Search(q, s) and the call w start: Search has validated its arguments and
\* run the transform on the query, Index has validated the document and run
\* the transform on the vector that the tables hash
Start(q, s, w) ==
  /\ Ready
  /\ ~threads.on
  /\ threads' =
       [on |-> TRUE,
        s |-> [pc |-> "filter", q |-> q,
               d |-> [q EXCEPT !.Vector = TFunc(q.Vector).arg],
               opts |-> SearchValidate(s).s,
               passes |-> Passes([q EXCEPT !.Vector = TFunc(q.Vector).arg], SearchValidate(s).s),
               pending |-> 1..Len(Tables), pairs |-> {}, missing |-> {}],
        w |-> [pc |-> "tables", op |-> w.op, uid |-> w.uid, orig |-> w.d,
               d |-> [w.d EXCEPT !.Vector = TFunc(w.d.Vector).arg],
               next |-> 1, err |-> NIL]]
  /\ UNCHANGED <<Cfg, built, Tables, Docs, ret, indexed, nops, res, offered>>

\* the goroutine of table i runs tbl.Filter and merges what it found
FilterStep(i) ==
  /\ threads.on /\ threads.s.pc = "filter" /\ i \in threads.s.pending
  /\ LET found == Pairs(TableFilter(Tables[i], Planes(i), Filtering, threads.s.opts.MaxLag))
         last == threads.s.pending = {i}
         passes == IF last THEN Tail(threads.s.passes) ELSE threads.s.passes
     IN threads' = [threads EXCEPT
                      !.s.pairs = @ \cup found,
                      !.s.passes = passes,
                      !.s.pending = IF last THEN 1..Len(Tables) ELSE @ \ {i},
                      !.s.pc = IF passes = <<>> THEN "score" ELSE "filter"]
  /\ UNCHANGED <<Cfg, built, Tables, Docs, ret, indexed, nops, res, offered>>

\* LSH.score and the return of Search; missing is the history of the
\* candidates that the forward index no longer held
ScoreStep ==
  /\ threads.on /\ threads.s.pc = "score"
  /\ \E order \in ScoreOrders(Merge(threads.s.pairs)) :
        LET sc == score(Docs, threads.s.d, order,
                        NewResults(threads.s.opts.NumToReturn, threads.s.opts.Threshold,
                                   threads.s.opts.SignFilter))
            r == IF sc.r.panic THEN Return(Panic, <<>>, 0)
                 ELSE Return(NIL, Fetch(sc.r).scores, sc.r.NumScored)
        IN /\ ret' = Call("Search", threads.s.q, 0, threads.s.opts, r)
           /\ Docs' = sc.docs
  /\ threads' = [threads EXCEPT
                   !.s.pc = "done",
                   !.s.missing = {p \in threads.s.pairs : p[1] \notin DOMAIN Docs}]
  /\ UNCHANGED <<Cfg, built, Tables, indexed, nops, res, offered>>

\* the step of the writer on a table with the write of the forward index
\* moved before the loop: the first step of Index also runs l.Docs.Index
WriterTable_ForwardFirst ==
  /\ threads.on /\ threads.w.pc = "tables"
  /\ LET i == threads.w.next
         r == IF threads.w.op = "Index" THEN TableIndex(Tables[i], Planes(i), threads.w.d)
              ELSE TableDelete(Tables[i], threads.w.uid)
         failed == threads.w.op = "Index" /\ r.err # NIL
     IN /\ Tables' = [Tables EXCEPT ![i] = r.t]
        /\ Docs' = IF threads.w.op = "Index" /\ i = 1
                   THEN DocsIndex(Docs, threads.w.orig) ELSE Docs
        /\ threads' = [threads EXCEPT
                         !.w.err = IF r.err # NIL THEN r.err ELSE @,
                         !.w.next = i + 1,
                         !.w.pc = IF failed THEN "done"
                                  ELSE IF i = Len(Tables) THEN "forward" ELSE "tables"]
  /\ UNCHANGED <<Cfg, built, ret, indexed, nops, res, offered>>

\* t.Index(d) or t.Delete(uid) on the next table of the loop of the writer
WriterTable ==
  /\ threads.on /\ threads.w.pc = "tables"
  /\ LET i == threads.w.next
         r == IF threads.w.op = "Index" THEN TableIndex(Tables[i], Planes(i), threads.w.d)
              ELSE TableDelete(Tables[i], threads.w.uid)
         failed == threads.w.op = "Index" /\ r.err # NIL
     IN /\ Tables' = [Tables EXCEPT ![i] = r.t]
        /\ threads' = [threads EXCEPT
                         !.w.err = IF r.err # NIL THEN r.err ELSE @,
                         !.w.next = i + 1,
                         !.w.pc = IF failed THEN "done"
                                  ELSE IF i = Len(Tables) THEN "forward" ELSE "tables"]
  /\ UNCHANGED <<Cfg, built, Docs, ret, indexed, nops, res, offered>>

\* l.Docs.Index(origDoc) or l.Docs.Delete(uid), and the return of the writer
WriterForward ==
  /\ threads.on /\ threads.w.pc = "forward"
  /\ Docs' = IF threads.w.op = "Index" THEN DocsIndex(Docs, threads.w.orig)
             ELSE DocsDelete(Docs, threads.w.uid)
  /\ indexed' = IF threads.w.op = "Index" THEN indexed \cup {threads.w.orig}
                ELSE {d \in indexed : d.UID # threads.w.uid}
  /\ threads' = [threads EXCEPT !.w.pc = "done"]
  /\ UNCHANGED <<Cfg, built, Tables, ret, nops, res, offered>>

NextConc ==
  \/ \E d \in ConcDocs : Populate(d)
  \/ \E q \in ConcQueries, w \in ConcWrites : Start(q[1], q[2], w)
  \/ \E i \in 1..Len(Tables) : FilterStep(i)
  \/ ScoreStep
  \/ WriterTable
  \/ WriterForward

SpecConc == Init /\ [][NextConc]_vars

-----------------------------------------------------------------------------
(* the goroutines of filterDocsByLag and a concurrent Index or Delete, lock
   by lock: a step ends where the code takes or releases a mutex *)

\* the searches that run concurrently with a write
LockQueries == ConcQueries

\* the documents indexed before the two calls start and by the writer
LockDocs ==
  {NewSimple(1, 0, <<0, 2, 4>>), NewSimple(2, 0, <<0, 2, 4>>), NewSimple(2, 2, <<4, 2, 0>>)}

LockWrites ==
  {[op |-> "Index", d |-> d, uid |-> d.UID] : d \in LockDocs}
     \cup {[op |-> "Delete", d |-> NoDoc, uid |-> uid] : uid \in UIDs}

\* resLock of filterDocsByLag, and the mutex of the bitmap of table i at
\* (row r, bucket h)
ResLock == <<"res">>

RbLock(i, r, h) == <<"rb", i, r, h>>

\* some goroutine holds the lock
Locked(lock) ==
  \/ lock \in threads.w.held
  \/ \E i \in 1..Len(Tables) : lock \in threads.g[i].held

\* the goroutine of a table before it runs
NewTask == [pc |-> "hash", rows |-> {}, cur |-> 0, found |-> {}, snap |-> {}, held |-> {}]

\* the bucket code of vector v in every table
Codes(v) == [i \in 1..Len(Tables) |-> Hash16(Planes(i), v).hash]

\* the bucket code tbl.Filter computes in the goroutine of table i
TaskHashOf(i) == Head(threads.s.codes)[i]

\* the least row of a set of rows
MinOf(rows) == CHOOSE r \in rows : \A x \in rows : r <= x

\* the rows the loop of Table.Filter can take next: in ascending order with a
\* lag, in the order of the map without
NextRows(i) ==
  IF threads.g[i].rows = {} THEN {}
  ELSE IF threads.s.opts.MaxLag > -1 THEN {MinOf(threads.g[i].rows)}
  ELSE threads.g[i].rows

\* Search(q, s) and the call w start, as in Start; codes are the bucket codes
\* that Hash16 gives in each table: for the search those of the query of each
\* pass, for the writer those of its document
StartLocks(q, s, w) ==
  /\ Ready
  /\ ~threads.on
  /\ threads' =
       [on |-> TRUE, crashed |-> FALSE,
        s |-> [pc |-> "filter", q |-> q,
               d |-> [q EXCEPT !.Vector = TFunc(q.Vector).arg],
               opts |-> SearchValidate(s).s,
               passes |-> Passes([q EXCEPT !.Vector = TFunc(q.Vector).arg], SearchValidate(s).s),
               codes |-> LET passes == Passes([q EXCEPT !.Vector = TFunc(q.Vector).arg],
                                              SearchValidate(s).s)
                         IN [k \in 1..Len(passes) |-> Codes(passes[k].Vector)],
               merged |-> {}, pairs |-> {}, missing |-> {}],
        g |-> [i \in 1..Len(Tables) |-> NewTask],
        w |-> [pc |-> "enter", op |-> w.op, uid |-> w.uid, orig |-> w.d,
               d |-> [w.d EXCEPT !.Vector = TFunc(w.d.Vector).arg],
               codes |-> Codes(TFunc(w.d.Vector).arg),
               next |-> 1, err |-> NIL, todo |-> {}, cur |-> <<>>, held |-> {}]]
  /\ UNCHANGED <<Cfg, built, Tables, Docs, ret, indexed, nops, res, offered>>

\* a step of the goroutine of table i that changes only the goroutine
TaskTo(i, task) ==
  /\ threads' = [threads EXCEPT !.g[i] = task]
  /\ UNCHANGED <<Cfg, built, Tables, Docs, ret, indexed, nops, res, offered>>

\* tbl.Filter up to its loop: the hash and the rows to look up
TaskHash(i) ==
  /\ threads.on /\ threads.s.pc = "filter" /\ threads.g[i].pc = "hash"
  /\ TaskTo(i, [threads.g[i] EXCEPT
                  !.pc = "rows",
                  !.rows = IF threads.s.opts.MaxLag > -1
                           THEN FilterRows(Filtering, threads.s.opts.MaxLag)
                           ELSE DOMAIN Tables[i].Table])

\* the loop of tbl.Filter looks up t.Table[row] and tblRow[hash]: a row
\* without the bucket is skipped
TaskLookup(i) ==
  /\ threads.on /\ threads.s.pc = "filter" /\ threads.g[i].pc = "rows"
  /\ \E r \in NextRows(i) :
        LET exists == /\ r \in DOMAIN Tables[i].Table
                      /\ TaskHashOf(i) \in DOMAIN Tables[i].Table[r]
        IN TaskTo(i, [threads.g[i] EXCEPT
                        !.rows = @ \ {r},
                        !.cur = r,
                        !.pc = IF exists THEN "lock" ELSE "rows"])

\* rb.Lock() in tbl.Filter
TaskLock(i) ==
  /\ threads.on /\ threads.s.pc = "filter" /\ threads.g[i].pc = "lock"
  /\ ~Locked(RbLock(i, threads.g[i].cur, TaskHashOf(i)))
  /\ TaskTo(i, [threads.g[i] EXCEPT
                  !.held = @ \cup {RbLock(i, threads.g[i].cur, TaskHashOf(i))},
                  !.pc = "locked"])

\* the loop over rb.Rb.ToArray() and rb.Unlock(): a bitmap whose key was
\* deleted since the lookup is the empty bitmap it was when deleted
TaskRead(i) ==
  /\ threads.on /\ threads.s.pc = "filter" /\ threads.g[i].pc = "locked"
  /\ LET code == TaskHashOf(i)
         row == threads.g[i].cur
         lag == threads.s.opts.MaxLag
         rb == IF row \in DOMAIN Tables[i].Table /\ code \in DOMAIN Tables[i].Table[row]
               THEN Tables[i].Table[row][code] ELSE {}
         recorded == UNION {{<<uid, index>> : index \in Timestamps(Tables[i], uid, code)} :
                              uid \in rb}
         kept == {p \in recorded :
                    lag > -1 => /\ p[2] >= Filtering.Index - lag
                                /\ p[2] <= Filtering.Index + lag}
     IN TaskTo(i, [threads.g[i] EXCEPT
                     !.found = @ \cup kept,
                     !.held = @ \ {RbLock(i, row, code)},
                     !.pc = "rows"])

\* tbl.Filter returns
TaskReturn(i) ==
  /\ threads.on /\ threads.s.pc = "filter" /\ threads.g[i].pc = "rows"
  /\ threads.g[i].rows = {}
  /\ TaskTo(i, [threads.g[i] EXCEPT !.pc = "merge"])

\* resLock.Lock() taken by every goroutine at once: no mutual exclusion
TaskResLock_NoMutex(i) ==
  /\ threads.on /\ threads.s.pc = "filter" /\ threads.g[i].pc = "merge"
  /\ TaskTo(i, [threads.g[i] EXCEPT
                  !.held = @ \cup {ResLock},
                  !.snap = threads.s.merged,
                  !.pc = "merging"])

\* resLock.Lock(), and the entries of mergedRes the loop reads
TaskResLock(i) ==
  /\ threads.on /\ threads.s.pc = "filter" /\ threads.g[i].pc = "merge"
  /\ ~Locked(ResLock)
  /\ TaskTo(i, [threads.g[i] EXCEPT
                  !.held = @ \cup {ResLock},
                  !.snap = threads.s.merged,
                  !.pc = "merging"])

\* the entries the loop writes to mergedRes, resLock.Unlock() and wg.Done()
TaskMerge(i) ==
  /\ threads.on /\ threads.s.pc = "filter" /\ threads.g[i].pc = "merging"
  /\ threads' = [threads EXCEPT
                   !.s.merged = threads.g[i].snap \cup threads.g[i].found,
                   !.g[i].held = @ \ {ResLock},
                   !.g[i].pc = "done"]
  /\ UNCHANGED <<Cfg, built, Tables, Docs, ret, indexed, nops, res, offered>>

\* wg.Wait() returns and filterDocs merges mergedRes into docIds: the next
\* call of filterDocsByLag starts its goroutines, or the Score phase begins
Wait ==
  /\ threads.on /\ threads.s.pc = "filter"
  /\ \A i \in 1..Len(Tables) : threads.g[i].pc = "done"
  /\ threads' = [threads EXCEPT
                   !.s.pairs = @ \cup threads.s.merged,
                   !.s.passes = Tail(@),
                   !.s.codes = IF Tail(threads.s.passes) = <<>> THEN @ ELSE Tail(@),
                   !.s.pc = IF Tail(threads.s.passes) = <<>> THEN "score" ELSE "filter",
                   !.s.merged = IF Tail(threads.s.passes) = <<>> THEN @ ELSE {},
                   !.g = IF Tail(threads.s.passes) = <<>> THEN @
                         ELSE [i \in 1..Len(Tables) |-> NewTask]]
  /\ UNCHANGED <<Cfg, built, Tables, Docs, ret, indexed, nops, res, offered>>

\* the writer moves to the next table, or to the forward index after the last
Advance(w) ==
  IF w.next = Len(Tables) THEN [w EXCEPT !.pc = "forward", !.todo = {}, !.cur = <<>>]
  ELSE [w EXCEPT !.pc = "enter", !.next = @ + 1, !.todo = {}, !.cur = <<>>]

\* a step of the writer on table threads.w.next
WriterTo(t, w) ==
  /\ Tables' = [Tables EXCEPT ![threads.w.next] = t]
  /\ threads' = [threads EXCEPT !.w = w]
  /\ UNCHANGED <<Cfg, built, Docs, ret, indexed, nops, res, offered>>

\* Table.Index up to rb.Add: the row and the bucket are created when absent
IndexEnter ==
  /\ threads.on /\ threads.w.pc = "enter" /\ threads.w.op = "Index"
  /\ LET t == Tables[threads.w.next]
         code == threads.w.codes[threads.w.next]
         rowIndex == RowIndex(threads.w.d.Index)
         tbl == IF rowIndex \in DOMAIN t.Table THEN t.Table[rowIndex] ELSE EmptyMap
         rb == IF code \in DOMAIN tbl THEN tbl[code] ELSE {}
     IN WriterTo([t EXCEPT !.Table = Put(t.Table, rowIndex, Put(tbl, code, rb))],
                 [threads.w EXCEPT !.pc = "lock", !.cur = <<rowIndex, code>>])

\* b.Lock() in Bitmap.Add and Bitmap.CheckedRemove
WriterLock ==
  /\ threads.on /\ threads.w.pc = "lock"
  /\ ~Locked(RbLock(threads.w.next, threads.w.cur[1], threads.w.cur[2]))
  /\ WriterTo(Tables[threads.w.next],
              [threads.w EXCEPT
                 !.held = @ \cup {RbLock(threads.w.next, threads.w.cur[1], threads.w.cur[2])},
                 !.pc = "locked"])

\* the rest of Table.Index: b.Rb.Add(uid), b.Unlock() and the time index
\* appended in the reverse index
IndexAdd ==
  /\ threads.on /\ threads.w.pc = "locked" /\ threads.w.op = "Index"
  /\ LET t == Tables[threads.w.next]
         uid == threads.w.uid
         code == threads.w.cur[2]
         hashTimestamps == IF uid \in DOMAIN t.Doc2Hash THEN t.Doc2Hash[uid] ELSE EmptyMap
         timestamps == IF code \in DOMAIN hashTimestamps THEN hashTimestamps[code] ELSE <<>>
     IN WriterTo([Table |-> [t.Table EXCEPT ![threads.w.cur[1]][code] = BitmapAdd(@, uid)],
                  Doc2Hash |-> Put(t.Doc2Hash, uid,
                                   Put(hashTimestamps, code,
                                       Append(timestamps, threads.w.d.Index)))],
                 Advance([threads.w EXCEPT !.held = {}]))

\* Table.Delete up to its loops: the buckets of the hashes of the uid
DeleteEnter ==
  /\ threads.on /\ threads.w.pc = "enter" /\ threads.w.op = "Delete"
  /\ LET t == Tables[threads.w.next]
         uid == threads.w.uid
         todo == {<<r, h>> \in (DOMAIN t.Table) \X (DOMAIN t.Doc2Hash[uid]) :
                    h \in DOMAIN t.Table[r]}
     IN IF uid \notin DOMAIN t.Doc2Hash
        THEN WriterTo(t, Advance([threads.w EXCEPT !.err = DocumentNotStored]))
        ELSE WriterTo(t, [threads.w EXCEPT
                            !.pc = "pick", !.todo = todo,
                            !.err = IF todo = {} THEN ErrHashNotFound ELSE @])

\* the loops of Table.Delete take the next bucket, in the order of the maps;
\* after the last, delete(t.Doc2Hash, uid)
DeletePick ==
  /\ threads.on /\ threads.w.pc = "pick"
  /\ LET t == Tables[threads.w.next]
     IN IF threads.w.todo = {}
        THEN WriterTo([t EXCEPT !.Doc2Hash = Del(t.Doc2Hash, threads.w.uid)],
                      Advance(threads.w))
        ELSE \E c \in threads.w.todo :
                WriterTo(t, [threads.w EXCEPT !.pc = "lock", !.todo = @ \ {c}, !.cur = c])

\* the rest of rb.CheckedRemove(uid): b.Rb.CheckedRemove(uid) and b.Unlock()
DeleteRemove ==
  /\ threads.on /\ threads.w.pc = "locked" /\ threads.w.op = "Delete"
  /\ LET t == Tables[threads.w.next]
         r == threads.w.cur[1]
         h == threads.w.cur[2]
     IN WriterTo([t EXCEPT !.Table[r][h] = CheckedRemove(@, threads.w.uid)],
                 [threads.w EXCEPT !.held = {}, !.pc = "lock2"])

\* b.Lock() in rb.IsEmpty()
DeleteLockEmpty ==
  /\ threads.on /\ threads.w.pc = "lock2"
  /\ ~Locked(RbLock(threads.w.next, threads.w.cur[1], threads.w.cur[2]))
  /\ WriterTo(Tables[threads.w.next],
              [threads.w EXCEPT
                 !.held = @ \cup {RbLock(threads.w.next, threads.w.cur[1], threads.w.cur[2])},
                 !.pc = "locked2"])

\* the rest of rb.IsEmpty(), and delete(tbl, hash) when it returned true
DeleteEmpty ==
  /\ threads.on /\ threads.w.pc = "locked2"
  /\ LET t == Tables[threads.w.next]
         r == threads.w.cur[1]
         h == threads.w.cur[2]
     IN WriterTo(IF IsEmpty(t.Table[r][h])
                 THEN [t EXCEPT !.Table[r] = Del(@, h)] ELSE t,
                 [threads.w EXCEPT !.held = {}, !.pc = "pick"])

\* the maps that the next step of the goroutine of table i reads with no
\* lock that the writer takes before it writes them
TaskReads(i) ==
  LET g == threads.g[i]
  IN IF g.pc = "hash" /\ threads.s.opts.MaxLag = -1 THEN {<<"Table", i>>}
     ELSE IF g.pc = "rows" /\ g.rows # {}
     THEN {<<"Table", i>>} \cup {<<"row", i, r>> : r \in NextRows(i) \cap DOMAIN Tables[i].Table}
     ELSE IF g.pc = "locked"
     THEN {<<"Doc2Hash", i>>}
     ELSE {}

\* the maps that the next step of the writer writes
WriterWrites ==
  LET w == threads.w
      i == w.next
      t == Tables[i]
  IN IF w.pc = "enter" /\ w.op = "Index"
     THEN LET rowIndex == RowIndex(w.d.Index)
          IN IF rowIndex \notin DOMAIN t.Table THEN {<<"Table", i>>}
             ELSE IF w.codes[i] \notin DOMAIN t.Table[rowIndex] THEN {<<"row", i, rowIndex>>}
             ELSE {}
     ELSE IF w.pc = "locked" /\ w.op = "Index"
     THEN IF w.uid \notin DOMAIN t.Doc2Hash THEN {<<"Doc2Hash", i>>} ELSE {}
     ELSE IF w.pc = "locked2"
     THEN IF IsEmpty(t.Table[w.cur[1]][w.cur[2]]) THEN {<<"row", i, w.cur[1]>>} ELSE {}
     ELSE IF w.pc = "pick" /\ w.todo = {} THEN {<<"Doc2Hash", i>>}
     ELSE {}

\* a goroutine of the search reads a map of a table while the writer writes
\* it: the Go runtime can end the process with "fatal error: concurrent map
\* read and map write"
Fault ==
  /\ threads.on /\ threads.s.pc = "filter"
  /\ \E i \in 1..Len(Tables) : TaskReads(i) \cap WriterWrites # {}
  /\ threads' = [threads EXCEPT
                   !.crashed = TRUE,
                   !.s.pc = "fatal",
                   !.w.pc = "fatal",
                   !.g = [i \in 1..Len(Tables) |-> [threads.g[i] EXCEPT !.pc = "fatal"]]]
  /\ UNCHANGED <<Cfg, built, Tables, Docs, ret, indexed, nops, res, offered>>

\* the steps of the goroutine of table i
TaskNext(i) ==
  \/ TaskHash(i)
  \/ TaskLookup(i)
  \/ TaskLock(i)
  \/ TaskRead(i)
  \/ TaskReturn(i)
  \/ TaskResLock(i)
  \/ TaskMerge(i)

\* the steps of Index or Delete in the tables
WriterNext ==
  \/ IndexEnter
  \/ WriterLock
  \/ IndexAdd
  \/ DeleteEnter
  \/ DeletePick
  \/ DeleteRemove
  \/ DeleteLockEmpty
  \/ DeleteEmpty

NextLocks ==
  \/ \E d \in LockDocs : Populate(d)
  \/ \E q \in LockQueries, w \in LockWrites : StartLocks(q[1], q[2], w)
  \/ \E i \in 1..Len(Tables) : TaskNext(i)
  \/ Wait
  \/ ScoreStep
  \/ WriterNext
  \/ WriterForward
  \/ Fault

SpecLocks == Init /\ [][NextLocks]_vars

\* the Go scheduler runs every goroutine that can take a step, and a
\* goroutine that waits for a mutex runs once the mutex stays free: the tasks
\* of the search, wg.Wait() and the writer in the tables keep going
SpecLocksFair ==
  /\ Init /\ [][NextLocks]_vars
  /\ \A i \in 1..EngineCfg.NumTables : WF_vars(TaskNext(i))
  /\ WF_vars(Wait)
  /\ WF_vars(WriterNext)

-----------------------------------------------------------------------------
(* An Index and a Delete of another uid running together on one engine, map
   access by map access.  A bitmap is reached through the pointer that the
   lookup tbl[hash] returned: a bucket that Delete removes from its row while
   Index holds the pointer stays with Index alone. *)

\* the documents stored before the two calls start, and the documents of the
\* concurrent Index
WriterDocs ==
  {NewSimple(uid, 0, v) : uid \in UIDs, v \in {<<0, 2, 4>>, <<4, 2, 0>>}}

\* LSH.Index(d) and LSH.Delete(uid) start; Index has validated the document
\* and run the transform on the vector that the tables hash
StartWriters(d, uid) ==
  /\ Ready
  /\ ~threads.on
  /\ d.UID # uid
  /\ Len(d.Vector) = Cfg.VectorLength
  /\ ~StdDevIsZero(d.Vector)
  /\ threads' =
       [on |-> TRUE, crashed |-> FALSE,
        shares |-> \E i \in 1..Len(Tables) :
                      /\ uid \in DOMAIN Tables[i].Doc2Hash
                      /\ Codes(TFunc(d.Vector).arg)[i] \in DOMAIN Tables[i].Doc2Hash[uid]
                      /\ RowIndex(d.Index) \in
                           {RowIndex(ts) :
                              ts \in Timestamps(Tables[i], uid, Codes(TFunc(d.Vector).arg)[i])},
        ix |-> [pc |-> "bucket", uid |-> d.UID, orig |-> d,
                d |-> [d EXCEPT !.Vector = TFunc(d.Vector).arg],
                codes |-> Codes(TFunc(d.Vector).arg),
                next |-> 1, cur |-> <<>>, attached |-> FALSE, rb |-> {}, err |-> NIL],
        dl |-> [pc |-> "hashes", uid |-> uid, next |-> 1, hashes |-> {}, todo |-> {},
                cur |-> <<>>, err |-> NIL]]
  /\ UNCHANGED <<Cfg, built, Tables, Docs, ret, indexed, nops, res, offered>>

\* a step of the Index on table threads.ix.next
IndexTo(t, ix) ==
  /\ Tables' = [Tables EXCEPT ![threads.ix.next] = t]
  /\ threads' = [threads EXCEPT !.ix = ix]
  /\ UNCHANGED <<Cfg, built, Docs, ret, indexed, nops, res, offered>>

\* a step of the Delete on table threads.dl.next that leaves the Index as ix
DeleteTo(t, dl, ix) ==
  /\ Tables' = [Tables EXCEPT ![threads.dl.next] = t]
  /\ threads' = [threads EXCEPT !.dl = dl, !.ix = ix]
  /\ UNCHANGED <<Cfg, built, Docs, ret, indexed, nops, res, offered>>

\* Table.Index up to rb.Add: the row and the bucket are looked up and created
\* when absent; rb points to the bitmap of the bucket
IndexBucket ==
  /\ threads.on /\ threads.ix.pc = "bucket"
  /\ LET t == Tables[threads.ix.next]
         hash16 == threads.ix.codes[threads.ix.next]
         rowIndex == RowIndex(threads.ix.d.Index)
         tbl == IF rowIndex \in DOMAIN t.Table THEN t.Table[rowIndex] ELSE EmptyMap
         rb == IF hash16 \in DOMAIN tbl THEN tbl[hash16] ELSE {}
     IN IndexTo([t EXCEPT !.Table = Put(t.Table, rowIndex, Put(tbl, hash16, rb))],
                [threads.ix EXCEPT !.pc = "add", !.cur = <<rowIndex, hash16>>,
                                   !.attached = TRUE, !.rb = {}])

\* rb.Add(uid), under the mutex of the bitmap: the bitmap is the one in the
\* row when the row still has it, and the one only Index has otherwise
IndexRbAdd ==
  /\ threads.on /\ threads.ix.pc = "add"
  /\ LET t == Tables[threads.ix.next]
         rowIndex == threads.ix.cur[1]
         hash16 == threads.ix.cur[2]
     IN IF threads.ix.attached
        THEN IndexTo([t EXCEPT !.Table[rowIndex][hash16] = BitmapAdd(@, threads.ix.uid)],
                     [threads.ix EXCEPT !.pc = "reverse"])
        ELSE IndexTo(t, [threads.ix EXCEPT !.pc = "reverse",
                                           !.rb = BitmapAdd(@, threads.ix.uid)])

\* the rest of Table.Index: the time index appended in t.Doc2Hash; then the
\* next table, or the forward index after the last
IndexDoc2Hash ==
  /\ threads.on /\ threads.ix.pc = "reverse"
  /\ LET t == Tables[threads.ix.next]
         uid == threads.ix.uid
         hash16 == threads.ix.cur[2]
         hashTimestamps == IF uid \in DOMAIN t.Doc2Hash THEN t.Doc2Hash[uid] ELSE EmptyMap
         timestamps == IF hash16 \in DOMAIN hashTimestamps THEN hashTimestamps[hash16] ELSE <<>>
     IN IndexTo([t EXCEPT !.Doc2Hash =
                   Put(t.Doc2Hash, uid,
                       Put(hashTimestamps, hash16, Append(timestamps, threads.ix.d.Index)))],
                [threads.ix EXCEPT
                   !.pc = IF threads.ix.next = Len(Tables) THEN "forward" ELSE "bucket",
                   !.next = IF threads.ix.next = Len(Tables) THEN @ ELSE @ + 1,
                   !.attached = FALSE])

\* l.Docs.Index(origDoc) and the return of LSH.Index
IndexDocs ==
  /\ threads.on /\ threads.ix.pc = "forward"
  /\ Docs' = DocsIndex(Docs, threads.ix.orig)
  /\ threads' = [threads EXCEPT !.ix.pc = "done"]
  /\ UNCHANGED <<Cfg, built, Tables, ret, indexed, nops, res, offered>>

\* the next table of LSH.Delete, or the forward index after the last
NextTable(dl) ==
  [dl EXCEPT !.pc = IF dl.next = Len(Tables) THEN "forward" ELSE "hashes",
             !.next = IF dl.next = Len(Tables) THEN @ ELSE @ + 1,
             !.todo = {}, !.cur = <<>>]

\* Table.Delete up to its loops: hashes, exists := t.Doc2Hash[uid], and the
\* rows that range t.Table visits
DeleteHashes ==
  /\ threads.on /\ threads.dl.pc = "hashes"
  /\ LET t == Tables[threads.dl.next]
         uid == threads.dl.uid
     IN IF uid \notin DOMAIN t.Doc2Hash
        THEN DeleteTo(t, NextTable([threads.dl EXCEPT !.err = DocumentNotStored]), threads.ix)
        ELSE DeleteTo(t, [threads.dl EXCEPT
                            !.pc = "pick", !.err = ErrHashNotFound,
                            !.todo = (DOMAIN t.Table) \X (DOMAIN t.Doc2Hash[uid])],
                      threads.ix)

\* the loops of Table.Delete take the next row and hash, in the order of the
\* maps: rb, exists := tbl[hash], continue when the row has no such bucket;
\* after the last, delete(t.Doc2Hash, uid)
DeleteBucket ==
  /\ threads.on /\ threads.dl.pc = "pick"
  /\ LET t == Tables[threads.dl.next]
     IN IF threads.dl.todo = {}
        THEN DeleteTo([t EXCEPT !.Doc2Hash = Del(t.Doc2Hash, threads.dl.uid)],
                      NextTable(threads.dl), threads.ix)
        ELSE \E c \in threads.dl.todo :
                IF c[2] \in DOMAIN t.Table[c[1]]
                THEN DeleteTo(t, [threads.dl EXCEPT !.pc = "remove", !.todo = @ \ {c},
                                                    !.cur = c, !.err = NIL],
                              threads.ix)
                ELSE DeleteTo(t, [threads.dl EXCEPT !.todo = @ \ {c}], threads.ix)

\* rb.CheckedRemove(uid), under the mutex of the bitmap
DeleteRbRemove ==
  /\ threads.on /\ threads.dl.pc = "remove"
  /\ LET t == Tables[threads.dl.next]
         rowIndex == threads.dl.cur[1]
         hash16 == threads.dl.cur[2]
     IN DeleteTo([t EXCEPT !.Table[rowIndex][hash16] = CheckedRemove(@, threads.dl.uid)],
                 [threads.dl EXCEPT !.pc = "empty"], threads.ix)

\* rb.IsEmpty(), under the mutex of the bitmap; the mutex is free again when
\* it has returned
DeleteRbIsEmpty ==
  /\ threads.on /\ threads.dl.pc = "empty"
  /\ LET t == Tables[threads.dl.next]
     IN DeleteTo(t, [threads.dl EXCEPT
                       !.pc = IF IsEmpty(t.Table[threads.dl.cur[1]][threads.dl.cur[2]])
                              THEN "key" ELSE "pick"],
                 threads.ix)

\* delete(tbl, hash): the row loses the bucket, with whatever the bitmap
\* holds by now; an Index that has looked the bitmap up keeps its pointer
DeleteKey ==
  /\ threads.on /\ threads.dl.pc = "key"
  /\ LET t == Tables[threads.dl.next]
         rowIndex == threads.dl.cur[1]
         hash16 == threads.dl.cur[2]
         held == /\ threads.ix.attached
                 /\ threads.ix.next = threads.dl.next
                 /\ threads.ix.cur = threads.dl.cur
     IN DeleteTo([t EXCEPT !.Table[rowIndex] = Del(@, hash16)],
                 [threads.dl EXCEPT !.pc = "pick"],
                 IF held
                 THEN [threads.ix EXCEPT !.attached = FALSE, !.rb = t.Table[rowIndex][hash16]]
                 ELSE threads.ix)

\* l.Docs.Delete(uid) and the return of LSH.Delete
DeleteDocs ==
  /\ threads.on /\ threads.dl.pc = "forward"
  /\ Docs' = DocsDelete(Docs, threads.dl.uid)
  /\ threads' = [threads EXCEPT !.dl.pc = "done"]
  /\ UNCHANGED <<Cfg, built, Tables, ret, indexed, nops, res, offered>>

\* the maps the next step of the Index reads (r) or writes (w)
IndexAccess ==
  LET ix == threads.ix
      i == ix.next
      t == Tables[i]
  IN IF ix.pc = "bucket"
     THEN LET rowIndex == RowIndex(ix.d.Index)
          IN IF rowIndex \notin DOMAIN t.Table THEN {<<"w", "Table", i>>}
             ELSE IF ix.codes[i] \notin DOMAIN t.Table[rowIndex]
             THEN {<<"r", "Table", i>>, <<"w", "row", i, rowIndex>>}
             ELSE {<<"r", "Table", i>>, <<"r", "row", i, rowIndex>>}
     ELSE IF ix.pc = "reverse"
     THEN IF ix.uid \notin DOMAIN t.Doc2Hash THEN {<<"w", "Doc2Hash", i>>}
          ELSE {<<"r", "Doc2Hash", i>>}
     ELSE IF ix.pc = "forward" THEN {<<"w", "docs">>}
     ELSE {}

\* the maps the next step of the Delete reads or writes
DeleteAccess ==
  LET dl == threads.dl
      i == dl.next
  IN IF dl.pc = "hashes" THEN {<<"r", "Doc2Hash", i>>, <<"r", "Table", i>>}
     ELSE IF dl.pc = "pick"
     THEN IF dl.todo = {} THEN {<<"w", "Doc2Hash", i>>}
          ELSE {<<"r", "Table", i>>} \cup {<<"r", "row", i, c[1]>> : c \in dl.todo}
     ELSE IF dl.pc = "key" THEN {<<"w", "row", i, dl.cur[1]>>}
     ELSE IF dl.pc = "forward" THEN {<<"w", "docs">>}
     ELSE {}

\* the same map, one of the two accesses a write
Conflict(a, b) == Tail(a) = Tail(b) /\ "w" \in {a[1], b[1]}

\* the two calls reach the same map with no lock, one of them writing: the Go
\* runtime can end the process with "fatal error: concurrent map writes" or
\* "concurrent map read and map write"
ConcurrentMapWrites ==
  /\ threads.on /\ ~threads.crashed
  /\ \E a \in IndexAccess, b \in DeleteAccess : Conflict(a, b)
  /\ threads' = [threads EXCEPT !.crashed = TRUE, !.ix.pc = "fatal", !.dl.pc = "fatal"]
  /\ UNCHANGED <<Cfg, built, Tables, Docs, ret, indexed, nops, res, offered>>

NextWriters ==
  \/ \E d \in WriterDocs : Populate(d)
  \/ \E d \in WriterDocs, uid \in UIDs : StartWriters(d, uid)
  \/ IndexBucket
  \/ IndexRbAdd
  \/ IndexDoc2Hash
  \/ IndexDocs
  \/ DeleteHashes
  \/ DeleteBucket
  \/ DeleteRbRemove
  \/ DeleteRbIsEmpty
  \/ DeleteKey
  \/ DeleteDocs
  \/ ConcurrentMapWrites

SpecWriters == Init /\ [][NextWriters]_vars

-----------------------------------------------------------------------------
(* Properties *)

\* the uids indexed without error and not deleted since
IndexedUIDs == {d.UID : d \in indexed}

\* the sign of score sc is one the sign filter sf admits
SignMatches(sf, sc) ==
  \/ sf = SignFilter_ANY
  \/ (sf = SignFilter_POS /\ sc.sgn > 0)
  \/ (sf = SignFilter_NEG /\ sc.sgn < 0)

\* the uids of a sequence of scores
ScoreUIDs(scores) == {scores[i].UID : i \in 1..Len(scores)}

\* the last call was a Search that returned without error
SearchReturned == ret.op = "Search" /\ ret.r.err = NIL

\* the options of the last Search: the defaults when it was passed nil
OptionsInForce == IF ret.s.isnil THEN NewDefaultSearch ELSE ret.s

\* C1: a Search that returns without error returns at most NumToReturn
\* scores, and every returned score has |score| >= Threshold and a sign that
\* the SignFilter admits (POS: > 0, NEG: < 0, ANY: any).
C1_SearchResultsPassFilters ==
  SearchReturned =>
    /\ Len(ret.r.scores) <= OptionsInForce.NumToReturn
    /\ \A i \in 1..Len(ret.r.scores) :
          /\ AbsAtLeast(ret.r.scores[i].Score, OptionsInForce.Threshold)
          /\ SignMatches(OptionsInForce.SignFilter, ret.r.scores[i].Score)

\* a NEG search under a threshold that filled its NumToReturn places and
\* scored more candidates than it returned
C1_Witness ==
  /\ SearchReturned
  /\ ret.s.SignFilter = SignFilter_NEG
  /\ ret.s.Threshold = Frac(9, 10)
  /\ Len(ret.r.scores) = ret.s.NumToReturn
  /\ ret.r.numScored > Len(ret.r.scores)

\* two scores of equal |score|
AbsEqual(a, b) == ~AbsLess(a.Score, b.Score) /\ ~AbsLess(b.Score, a.Score)

\* the last call was a Fetch
Fetched == ret.op = "Fetch"

Held == IF Fetched THEN ret.r.scores ELSE res.scores

\* the places of offered whose score passes the threshold and the sign filter
PassingOffers ==
  {i \in 1..Len(offered) :
     /\ AbsAtLeast(offered[i].Score, res.Threshold)
     /\ SignMatches(res.SignFilter, offered[i].Score)}

\* |score| of an entry, as the reduced fraction of its square
AbsVal(s) == <<s.Score.num, s.Score.den>>

AbsValGreater(a, b) == a[1] * b[2] > b[1] * a[2]

HeldCount(v) == Cardinality({i \in 1..Len(Held) : AbsVal(Held[i]) = v})

PassingCount(v) == Cardinality({i \in PassingOffers : AbsVal(offered[i]) = v})

PassingGreater(v) ==
  Cardinality({i \in PassingOffers : AbsValGreater(AbsVal(offered[i]), v)})

\* how often |score| v occurs among the n largest passing offers
TopCount(n, v) ==
  LET room == IF n > PassingGreater(v) THEN n - PassingGreater(v) ELSE 0
  IN IF PassingCount(v) < room THEN PassingCount(v) ELSE room

AbsVals ==
  {AbsVal(offered[i]) : i \in 1..Len(offered)} \cup {AbsVal(Held[i]) : i \in 1..Len(Held)}

\* the multiset of |score| held equals that of the TopN largest passing offers
HoldsTopN == \A v \in AbsVals : HeldCount(v) = TopCount(res.TopN, v)

Forgotten(uid) ==
  /\ \A i \in 1..Len(Tables) :
        /\ uid \notin DOMAIN Tables[i].Doc2Hash
        /\ \A r \in DOMAIN Tables[i].Table :
              \A h \in DOMAIN Tables[i].Table[r] : uid \notin Tables[i].Table[r][h]
  /\ uid \notin DOMAIN Docs

\* C4: once Delete(uid) has returned on a state in which uid was indexed, and
\* until uid is indexed again, no bitmap of any row of any table holds uid, no
\* table's reverse index and not the forward index has an entry for uid, and
\* no Search returns uid.
C4_DeleteForgetsUID ==
  \A uid \in UIDs :
    uid \notin IndexedUIDs =>
      /\ Forgotten(uid)
      /\ SearchReturned => uid \notin ScoreUIDs(ret.r.scores)

\* Delete returned after its uid had been indexed twice, leaving nothing
C4_Witness ==
  /\ ret.op = "Delete"
  /\ ret.r.err = NIL
  /\ nops = 3
  /\ Forgotten(ret.uid)
  /\ Docs = EmptyMap

\* C5: Delete(uid) of a uid that is not indexed (never indexed, or deleted
\* since) returns DocumentNotStored and leaves every table and the forward
\* index as they were.
C5_DeleteUnknownUID ==
  [][(ret'.op = "Delete" /\ ret'.uid \notin IndexedUIDs) =>
        /\ ret'.r.err = DocumentNotStored
        /\ Tables' = Tables
        /\ Docs' = Docs]_vars

\* Delete returned DocumentNotStored on an engine whose only document had
\* been deleted by the call before
C5_Witness ==
  /\ ret.op = "Delete"
  /\ ret.r.err = DocumentNotStored
  /\ nops = 2
  /\ Docs = EmptyMap
  /\ indexed = {}

\* the (uid, time_index) pairs the tables have recorded
StoredPairs ==
  UNION {UNION {{<<uid, Tables[i].Doc2Hash[uid][h][k]>> :
                    k \in 1..Len(Tables[i].Doc2Hash[uid][h])} :
                  h \in DOMAIN Tables[i].Doc2Hash[uid]} :
           <<i, uid>> \in {p \in (1..Len(Tables)) \X UIDs : p[2] \in DOMAIN Tables[p[1]].Doc2Hash}}

\* C6 as stated: a Search with the (time_index, vector) of a document that was
\* indexed without error and not deleted since, SignFilter POS or ANY, any
\* Threshold <= 1, any MaxLag and NumToReturn at least the number of stored
\* (uid, time_index) pairs returns an entry for that document's uid.
C6_IndexedDocumentFound ==
  \A d \in indexed :
    ( /\ ret.op = "Search"
      /\ ret.d.Index = d.Index
      /\ ret.d.Vector = d.Vector
      /\ ret.s.SignFilter \in {SignFilter_POS, SignFilter_ANY}
      /\ ret.s.NumToReturn >= Cardinality(StoredPairs) )
    => (ret.r.err = NIL /\ d.UID \in ScoreUIDs(ret.r.scores))

\* a Search with the time index and vector of a document that was indexed
\* without error after a later document of its uid: GetVector slices the
\* stored vector from a negative offset and the call panics
C6_Witness ==
  /\ ret.op = "Search"
  /\ ret.r.err = Panic
  /\ ret.s.SignFilter = SignFilter_POS
  /\ ret.s.NumToReturn >= Cardinality(StoredPairs)
  /\ \E d \in indexed :
        /\ ret.d.Index = d.Index
        /\ ret.d.Vector = d.Vector
        /\ d.Index >= 0
        /\ Docs[d.UID].Index > d.Index

\* C7: Index of a document whose vector length differs from VectorLength
\* returns InvalidDocument, whether or not the vector is constant; Index of a
\* document of the right length whose vector has standard deviation 0 returns
\* NoVectorComplexity; neither changes any table or the forward index.
C7_IndexRejectsInvalid ==
  [][ret'.op = "Index" =>
        /\ Len(ret'.d.Vector) # Cfg.VectorLength =>
              (ret'.r.err = ErrInvalidDocument /\ Tables' = Tables /\ Docs' = Docs)
        /\ (Len(ret'.d.Vector) = Cfg.VectorLength /\ StdDevIsZero(ret'.d.Vector)) =>
              (ret'.r.err = ErrNoVectorComplexity /\ Tables' = Tables /\ Docs' = Docs)]_vars

\* Index rejected a constant vector of the wrong length as InvalidDocument on
\* an engine that holds documents
C7_Witness ==
  /\ ret.op = "Index"
  /\ ret.r.err = ErrInvalidDocument
  /\ StdDevIsZero(ret.d.Vector)
  /\ Docs # EmptyMap

\* uid is in the reverse index and in a bitmap of table i
InTable(i, uid) ==
  /\ uid \in DOMAIN Tables[i].Doc2Hash
  /\ \E r \in DOMAIN Tables[i].Table :
        \E h \in DOMAIN Tables[i].Table[r] : uid \in Tables[i].Table[r][h]

TimestampList(t, uid, h) ==
  IF uid \in DOMAIN t.Doc2Hash /\ h \in DOMAIN t.Doc2Hash[uid]
  THEN t.Doc2Hash[uid][h] ELSE <<>>

\* the hashes table t has recorded for uid
HashesOf(t, uid) == IF uid \in DOMAIN t.Doc2Hash THEN DOMAIN t.Doc2Hash[uid] ELSE {}

FirstViolated(c) ==
  IF c.NumHyperplanes < 1 THEN ErrInvalidNumHyperplanes
  ELSE IF c.NumHyperplanes > 16 THEN ErrExceededMaxNumHyperplanes
  ELSE IF c.NumTables < 1 THEN ErrInvalidNumTables
  ELSE IF c.VectorLength < 1 THEN ErrInvalidVectorLength
  ELSE IF c.SamplePeriod < 1 THEN ErrInvalidSamplePeriod
  ELSE IF c.RowSize < 1 THEN ErrInvalidRowSize
  ELSE NIL

AllConstraintsHold(c) ==
  /\ c.NumHyperplanes >= 1
  /\ c.NumHyperplanes <= 16
  /\ c.NumTables >= 1
  /\ c.VectorLength >= 1
  /\ c.SamplePeriod >= 1
  /\ c.RowSize >= 1

\* C10: Validate returns the error of the first violated constraint in the
\* order NumHyperplanes < 1, NumHyperplanes > 16, NumTables < 1,
\* VectorLength < 1, SamplePeriod < 1, RowSize < 1, and nil iff all
\* constraints hold; New returns that error and constructs no engine.
C10_ValidateFirstViolated ==
  /\ Validate(Cfg) = FirstViolated(Cfg)
  /\ Validate(Cfg) = NIL <=> AllConstraintsHold(Cfg)
  /\ ret.op = "New" =>
        /\ ret.r.err = Validate(Cfg)
        /\ built <=> ret.r.err = NIL
        /\ ~built => Tables = <<>>
        /\ built => Len(Tables) = Cfg.NumTables

\* New refused a configuration that violates the second and the third
\* constraint with the error of the second
C10_Witness ==
  /\ ret.op = "New"
  /\ Cfg.NumHyperplanes > 16
  /\ Cfg.NumTables < 1
  /\ ret.r.err = ErrExceededMaxNumHyperplanes
  /\ ~built

\* the errors with which Search rejects its arguments
SearchArgumentErrors ==
  {ErrInvalidDocument, ErrInvalidNumToReturn, ErrInvalidThreshold, ErrInvalidSignFilter}

RecordedInWindow(i, q, lag) ==
  LET code == Hash16(Planes(i), q.Vector).hash
      recorded == UNION {{<<uid, ts>> : ts \in Timestamps(Tables[i], uid, code)} :
                           uid \in DOMAIN Tables[i].Doc2Hash}
  IN {p \in recorded : q.Index - lag <= p[2] /\ p[2] <= q.Index + lag}

\* C12: Table.Filter with max_lag L >= 0 and query time index t returns
\* exactly the (uid, ts) pairs with ts recorded for uid under the query's
\* bucket code in that table and t - L <= ts <= t + L, also when t - L is
\* negative; and every score returned by Search with MaxLag = L >= 0 has its
\* index within [t - L, t + L].
C12_FilterLagWindow ==
  /\ ret.op = "Filter" =>
        ret.pairs = RecordedInWindow(ret.table, ret.d, ret.s.MaxLag)
  /\ (SearchReturned /\ OptionsInForce.MaxLag >= 0) =>
        \A k \in 1..Len(ret.r.scores) :
           /\ ret.d.Index - OptionsInForce.MaxLag <= ret.r.scores[k].Index
           /\ ret.r.scores[k].Index <= ret.d.Index + OptionsInForce.MaxLag

\* Filter with a window that starts below 0 returned a pair of a negative
\* time index and another pair while the table holds, under the same bucket
\* code, a posting outside the window
C12_Witness ==
  /\ ret.op = "Filter"
  /\ ret.d.Index - ret.s.MaxLag < 0
  /\ \E p \in ret.pairs : p[2] < 0
  /\ Cardinality(ret.pairs) >= 2
  /\ \E uid \in DOMAIN Tables[ret.table].Doc2Hash :
        \E ts \in Timestamps(Tables[ret.table], uid, Hash16(Planes(ret.table), ret.d.Vector).hash) :
           <<uid, ts>> \notin ret.pairs

\* bit k (from 0, the most significant first) of a code of w bits
BitAt(code, w, k) ==
  IF w <= 16 THEN (code \div (2 ^ (w - 1 - k))) % 2
  ELSE (code[(k \div 16) + 1] \div (2 ^ (15 - (k % 16)))) % 2

\* C13: for a set of N planes (N at most the width of the code) and a vector
\* of the length of the planes, each of Hash8, Hash16, Hash32 and Hash64
\* succeeds, and bit k of the code, counted from the most significant bit, is
\* 1 exactly when k < N and the dot product of plane k with the vector is
\* strictly positive (a dot product of 0 gives 0; the bits from N on are 0).
C13_HashBits ==
  (ret.op = "Hash" /\ Len(ret.planes) <= ret.bits /\ Len(ret.d.Vector) = 2) =>
     /\ ret.r.err = NIL
     /\ \A k \in 0..(ret.bits - 1) :
           BitAt(ret.r.hash, ret.bits, k) = 1
              <=> (k < Len(ret.planes) /\ Dot(ret.planes[k + 1], ret.d.Vector) > 0)

\* a 32-bit code of 31 planes: a plane with dot product 0 and a plane with a
\* positive one, a bit set in the second byte (plane 8 to 15) and in the last
C13_Witness ==
  /\ ret.op = "Hash" /\ ret.bits = 32 /\ Len(ret.planes) = 31
  /\ ret.r.err = NIL
  /\ \E k \in 1..31 : Dot(ret.planes[k], ret.d.Vector) = 0
  /\ \E k \in 9..16 : Dot(ret.planes[k], ret.d.Vector) > 0
  /\ \E k \in 25..31 : Dot(ret.planes[k], ret.d.Vector) > 0
  /\ ret.r.hash # <<0, 0>>

\* floor(x * 2^20) of a float64 held as <<hi, lo>>
Scaled20(x) == x[1] \div 256

\* C14: Stats returns exactly eight false-negative entries; entry i (from 0)
\* has the threshold 0.60 + 0.05 * i (the float64 sum that the loop
\* accumulates, equal to it to within 2^-20), the thresholds ascend, and the
\* probability of an entry is (1 - (1 - (2/pi) * acos(threshold)) ^
\* NumHyperplanes) ^ NumTables for the configured NumHyperplanes and NumTables.
C14_StatsFalseNegatives ==
  ret.op = "Stats" =>
     LET e == ret.stats.FalseNegativeErrors
     IN /\ Len(e) = 8
        /\ \A i \in 1..Len(e) :
              /\ Abs(100 * Scaled20(e[i].Threshold) - (60 + 5 * (i - 1)) * 1048576) <= 100
              /\ i > 1 => Float64Less(e[i - 1].Threshold, e[i].Threshold)
              /\ e[i].Probability =
                    Pow(OneMinus(Pow(OneMinus(Mul(TwoOverPi, Acos(e[i].Threshold))),
                                     Cfg.NumHyperplanes)),
                        Cfg.NumTables)

\* Stats of an engine whose number of hyperplanes differs from its number of tables
C14_Witness ==
  /\ ret.op = "Stats"
  /\ Cfg.NumHyperplanes = maxNumHyperplanes /\ Cfg.NumTables = 2
  /\ Len(ret.stats.FalseNegativeErrors) = 8
  /\ ret.stats.FalseNegativeErrors[8].Threshold = <<255013683, 107374224>>

\* C15: the NumDocs of a Stats call is the number of distinct uids with a
\* successful Index that no Delete of the uid followed; an Index of a uid that
\* is already indexed and a rejected Index leave NumDocs as it was.
C15_NumDocsCountsIndexedUIDs ==
  [][/\ ret'.op = "Stats" => ret'.stats.NumDocs = Cardinality(IndexedUIDs')
     /\ (ret'.op = "Index" /\ (ret'.r.err # NIL \/ ret'.uid \in IndexedUIDs))
           => LSHStats(Cfg, Docs').NumDocs = LSHStats(Cfg, Docs).NumDocs]_vars

\* Stats after an Index of each of two uids, a second Index of one of them and
\* a Delete of the other
C15_Witness ==
  /\ ret.op = "Stats"
  /\ nops = 3
  /\ ret.stats.NumDocs = 1
  /\ \E d1, d2 \in indexed : d1.UID = d2.UID /\ d1 # d2

\* C16: while a Search runs together with an Index or a Delete, no step that
\* one thread can take next reads a table's bucket map, a table's reverse
\* index or the map of the forward index that the step the other thread can
\* take next writes, unless a common lock is held at both accesses.
C16_NoUnsynchronisedAccess ==
  \A a \in SearchAccesses : \A b \in WriterAccesses : ~Races(a, b)

\* Search is about to filter a table in which Index is about to create the row
C16_Witness ==
  /\ threads.on /\ threads.s.pc = "filter" /\ threads.w.pc = "tables"
  /\ threads.w.op = "Index"
  /\ threads.w.next \in threads.s.pending
  /\ \E b \in WriterAccesses : b.obj[1] = "bucket" /\ b.write

\* the candidates of uid that Search collected
CollectedOf(uid) == {p \in threads.s.pairs : p[1] = uid}

\* C17: when Delete has removed a uid from the forward index after the Filter
\* phase of Search collected it and before Search scores, the candidates of
\* the uid raise no error (Search returns without error unless the vector of
\* another candidate cannot be read), the uid is in none of the returned
\* scores, and num_scored counts the other candidates only.
C17_DeletedCandidateSkipped ==
  [][(threads.on /\ threads.s.pc = "score" /\ threads'.s.pc = "done"
        /\ threads.w.op = "Delete" /\ threads.w.pc = "done"
        /\ CollectedOf(threads.w.uid) # {})
       => /\ ret'.r.err # NIL
               => \E p \in threads.s.pairs \ CollectedOf(threads.w.uid) :
                     GetVector(Docs, p[1], p[2]).panic
          /\ threads.w.uid \notin ScoreUIDs(ret'.r.scores)
          /\ ret'.r.err = NIL
               => ret'.r.numScored
                     = Cardinality(threads.s.pairs \ CollectedOf(threads.w.uid))]_vars

\* Search has scored after Delete removed one of two collected uids: the other
\* uid is returned and is the only candidate counted
C17_Witness ==
  /\ threads.on /\ threads.s.pc = "done"
  /\ threads.w.op = "Delete" /\ threads.w.pc = "done"
  /\ \E p \in threads.s.missing : p[1] = threads.w.uid
  /\ ret.op = "Search" /\ ret.r.err = NIL
  /\ ret.r.numScored = 1 /\ Len(ret.r.scores) = 1
  /\ Cardinality(threads.s.pairs) = 2

\* C18: a call of Search, whether it returns scores or an error, leaves the
\* bucket maps, the bitmaps and the reverse index of every table and every
\* entry of the forward index as they were before the call.
C18_SearchLeavesEngine ==
  [][ret'.op = "Search" => (Tables' = Tables /\ Docs' = Docs)]_vars

\* a Search that scored a stored vector which the transform changes (its
\* components have a common factor), on an engine with postings in its tables
C18_Witness ==
  /\ ret.op = "Search" /\ ret.r.err = NIL
  /\ ret.r.numScored >= 1
  /\ \E i \in 1..Len(ret.r.scores) :
        LET uid == ret.r.scores[i].UID
        IN uid \in DOMAIN Docs /\ TFunc(Docs[uid].Vector).arg # Docs[uid].Vector
  /\ \A i \in 1..Len(Tables) : DOMAIN Tables[i].Table # {}

\* the call in progress is an Index of the forward index that extends the
\* entry of a stored uid
Extends ==
  /\ ret'.op = "DocsIndex"
  /\ ret'.uid \in DOMAIN Docs
  /\ SampleOffset(Docs[ret'.uid], ret'.d) > 0

\* C19: when Index extends the forward-index entry of a stored uid, the offset
\* in samples that it uses is (d.Index - stored.Index) divided by SamplePeriod
\* (integer division), whether or not the time indexes are multiples of
\* SamplePeriod.
C19_OffsetIsDividedDifference ==
  [][Extends =>
        SampleOffset(Docs[ret'.uid], ret'.d)
           = Quo(ret'.d.Index - Docs[ret'.uid].Index, Cfg.SamplePeriod)]_vars

\* the entry stored at time index 1 has been extended by a document at time
\* index 2: one sample was added although the two are less than a
\* SamplePeriod apart
C19_Witness ==
  /\ ret.op = "DocsIndex" /\ ret.d.Index = 2
  /\ Docs[1].Index = 1
  /\ Len(Docs[1].Vector) = Cfg.VectorLength + 1
  /\ nops = 2

\* C20: extending a stored vector S of length n by V at the offset k > 0 gives
\* a vector of length max(n, k + VectorLength) that holds V at the positions
\* k .. k + VectorLength - 1, the value of S at every other position below n
\* (before k, and from k + VectorLength on) and 0 at the positions n .. k - 1;
\* the stored time index stays.
C20_ExtendShape ==
  [][Extends =>
        LET S == Docs[ret'.uid].Vector
            T == Docs'[ret'.uid].Vector
            V == ret'.d.Vector
            n == Len(S)
            k == SampleOffset(Docs[ret'.uid], ret'.d)
            VL == Cfg.VectorLength
        IN /\ Len(T) = IF n > k + VL THEN n ELSE k + VL
           /\ \A j \in 0..(Len(T) - 1) :
                 T[j + 1] = IF j >= k /\ j < k + VL THEN V[j - k + 1]
                            ELSE IF j < n THEN S[j + 1]
                            ELSE 0
           /\ Docs'[ret'.uid].Index = Docs[ret'.uid].Index]_vars

\* an extension past the end of the stored vector (zeros between) followed by
\* one inside it (stored samples kept after the samples written)
C20_Witness ==
  /\ ret.op = "DocsIndex" /\ nops = 3
  /\ LET T == Docs[1].Vector
         k == SampleOffset(Docs[1], ret.d)
     IN /\ Len(T) > k + Cfg.VectorLength
        /\ k > 0
        /\ \E j \in 1..Len(T) : T[j] = 0
        /\ T[Len(T)] # 0
        /\ \A i \in 1..Cfg.VectorLength : T[k + i] = ret.d.Vector[i]

C22_GetVectorWindow ==
  ret.op = "GetVector" =>
     IF ret.uid \notin DOMAIN Docs THEN ret.g.nil
     ELSE ret.d.Index >= Docs[ret.uid].Index =>
            LET stored == Docs[ret.uid].Vector
                pos == Quo(ret.d.Index - Docs[ret.uid].Index, Cfg.SamplePeriod)
            IN /\ ~ret.g.nil /\ ~ret.g.panic
               /\ Len(ret.g.vec) = Cfg.VectorLength
               /\ \A j \in 0..(Cfg.VectorLength - 1) :
                     ret.g.vec[j + 1] = IF pos + j < Len(stored) THEN stored[pos + j + 1] ELSE 0

\* GetVector of a stored uid at a time index whose first position is past the
\* end of the stored vector panicked
C22_Witness ==
  /\ ret.op = "GetVector"
  /\ ret.uid \in DOMAIN Docs
  /\ ret.d.Index >= Docs[ret.uid].Index
  /\ Quo(ret.d.Index - Docs[ret.uid].Index, Cfg.SamplePeriod) > Len(Docs[ret.uid].Vector)
  /\ ret.g.panic

\* C23: after an Index(d) without error of a uid that was not indexed, or at
\* a time index later than the stored one, GetVector(d.UID, d.Index) returns
\* the vector of d as it was passed (before the transform), whether or not
\* the time indexes are multiples of SamplePeriod.
C23_IndexedVectorReadBack ==
  [][(/\ ret'.op = "Index" /\ ret'.r.err = NIL
      /\ \/ ret'.uid \notin DOMAIN Docs
         \/ ret'.d.Index > Docs[ret'.uid].Index)
       => LET g == GetVector(Docs', ret'.uid, ret'.d.Index)
          IN ~g.nil /\ ~g.panic /\ g.vec = ret'.d.Vector]_vars

\* Index accepted a document one time index after the stored one, and
\* GetVector at its time index returns other samples than its vector
C23_Witness ==
  /\ ret.op = "Index" /\ ret.r.err = NIL
  /\ ret.uid \in DOMAIN Docs
  /\ Docs[ret.uid].Index = 1 /\ ret.d.Index = 2
  /\ Len(Docs[ret.uid].Vector) = Cfg.VectorLength + 1
  /\ ~GetVector(Docs, ret.uid, ret.d.Index).panic
  /\ GetVector(Docs, ret.uid, ret.d.Index).vec # ret.d.Vector

\* time_index / RowSize * RowSize with the quotient rounded toward zero, and
\* with the quotient rounded down
TruncRow(t) ==
  IF t >= 0 THEN (t \div Cfg.RowSize) * Cfg.RowSize
  ELSE -(((-t) \div Cfg.RowSize) * Cfg.RowSize)

FloorRow(t) == (t \div Cfg.RowSize) * Cfg.RowSize

\* Index, without error, put the uid of its document in the bitmap of row
\* row(d.Index) under the bucket code of the document in every table, and in
\* no bitmap of another row that did not hold it
PlacedInRow(row(_)) ==
  (ret'.op = "Index" /\ ret'.r.err = NIL) =>
     \A i \in 1..Len(Tables) :
        LET h == Hash16(Planes(i), TFunc(ret'.d.Vector).arg).hash
            r0 == row(ret'.d.Index)
        IN /\ r0 \in DOMAIN Tables'[i].Table
           /\ h \in DOMAIN Tables'[i].Table[r0]
           /\ ret'.uid \in Tables'[i].Table[r0][h]
           /\ \A r \in DOMAIN Tables'[i].Table \ {r0} :
                 \A x \in DOMAIN Tables'[i].Table[r] :
                    ret'.uid \in Tables'[i].Table[r][x]
                       => /\ r \in DOMAIN Tables[i].Table
                          /\ x \in DOMAIN Tables[i].Table[r]
                          /\ ret'.uid \in Tables[i].Table[r][x]

\* C24 as stated: for every time index, positive, zero or negative, the row
\* shard into which Table.Index places the uid is floor(time_index / RowSize)
\* * RowSize.
C24_RowIsFloor == [][PlacedInRow(FloorRow)]_vars

\* C24 as the code has it: the row shard is time_index / RowSize * RowSize with
\* the quotient rounded toward zero, which is the floor for a time index that
\* is >= 0 or a multiple of RowSize; time index -1 is placed in row 0.
C24_RowIsTruncated == [][PlacedInRow(TruncRow)]_vars

\* a document at time index -1 was indexed: it is in row 0 of every table and
\* no table has a row -RowSize
C24_Witness ==
  /\ ret.op = "Index" /\ ret.r.err = NIL /\ ret.d.Index = -1
  /\ \A i \in 1..Len(Tables) :
        /\ 0 \in DOMAIN Tables[i].Table
        /\ \E h \in DOMAIN Tables[i].Table[0] : ret.uid \in Tables[i].Table[0][h]
        /\ -Cfg.RowSize \notin DOMAIN Tables[i].Table

\* the multiples of RowSize from lo to hi
RowsBetween(lo, hi) ==
  {r \in lo..hi : r % Cfg.RowSize = 0}

\* Filter looked up exactly the rows from lo to hi, and the uids it returned
\* pairs of are in the bucket of the query in one of these rows
UnionedRows(lo, hi) ==
  ret.op = "Filter" =>
     /\ ret.rows = RowsBetween(lo, hi)
     /\ \A p \in ret.pairs :
           \E r \in RowsBetween(lo, hi) \cap DOMAIN Tables[ret.table].Table :
              LET h == Hash16(Planes(ret.table), ret.d.Vector).hash
              IN /\ h \in DOMAIN Tables[ret.table].Table[r]
                 /\ p[1] \in Tables[ret.table].Table[r][h]

\* C25 as stated: for Table.Filter with max_lag >= 0, the row shards whose
\* bucket h is unioned are exactly the rows in the inclusive range
\* [floor((t - max_lag) / RowSize) * RowSize,
\*  floor((t + VectorLength * SamplePeriod + max_lag) / RowSize) * RowSize].
C25_RowsSpanVector ==
  UnionedRows(FloorRow(ret.d.Index - ret.s.MaxLag),
              FloorRow(ret.d.Index + Cfg.VectorLength * Cfg.SamplePeriod + ret.s.MaxLag))

\* C25 as the code has it: the rows are those of the inclusive range
\* [(t - max_lag) / RowSize * RowSize, (t + max_lag) / RowSize * RowSize],
\* the quotients rounded toward zero: the length of the query's vector is not
\* part of the range.
C25_RowsSpanLag ==
  UnionedRows(TruncRow(ret.d.Index - ret.s.MaxLag),
              TruncRow(ret.d.Index + ret.s.MaxLag))

\* Filter with a window that starts at -3 looked up rows -2 and 0 only and
\* returned a pair, from a table that also has the row 2 above them
C25_Witness ==
  /\ ret.op = "Filter"
  /\ ret.d.Index - ret.s.MaxLag = -3
  /\ ret.rows = {-2, 0}
  /\ ret.pairs # {}
  /\ 2 \in DOMAIN Tables[ret.table].Table

\* C26: after any sequence of Index and Delete calls, in every table, a uid
\* is in the bitmap at (row r, bucket h) if and only if the reverse index of
\* the table records for that uid, under h, at least one time index whose row
\* is r.
C26_BitmapsMatchReverseIndex ==
  \A i \in 1..Len(Tables) :
     LET t == Tables[i]
     IN /\ \A r \in DOMAIN t.Table : \A h \in DOMAIN t.Table[r] :
              \A uid \in t.Table[r][h] :
                 \E ts \in Timestamps(t, uid, h) : TruncRow(ts) = r
        /\ \A uid \in DOMAIN t.Doc2Hash : \A h \in DOMAIN t.Doc2Hash[uid] :
              \A ts \in Timestamps(t, uid, h) :
                 /\ TruncRow(ts) \in DOMAIN t.Table
                 /\ h \in DOMAIN t.Table[TruncRow(ts)]
                 /\ uid \in t.Table[TruncRow(ts)][h]

\* a Delete has removed a uid from the reverse index of every table while
\* another uid is still recorded there and in a bitmap
C26_Witness ==
  /\ ret.op = "Delete" /\ ret.r.err = NIL
  /\ \A i \in 1..Len(Tables) :
        /\ ret.uid \notin DOMAIN Tables[i].Doc2Hash
        /\ \E uid \in DOMAIN Tables[i].Doc2Hash : \E h \in DOMAIN Tables[i].Doc2Hash[uid] :
              /\ uid # ret.uid
              /\ \E r \in DOMAIN Tables[i].Table :
                    h \in DOMAIN Tables[i].Table[r] /\ uid \in Tables[i].Table[r][h]

\* C27: after any sequence of Index and Delete calls, no bucket key in any row
\* shard of any table maps to an empty bitmap: a Delete that removes the last
\* uid of a bucket also removes the key of the bucket.
C27_NoEmptyBucket ==
  \A i \in 1..Len(Tables) :
     \A r \in DOMAIN Tables[i].Table : \A h \in DOMAIN Tables[i].Table[r] :
        ~IsEmpty(Tables[i].Table[r][h])

\* a Delete has removed the last uid of the only bucket of a row: the row is
\* left without a bucket key in every table
C27_Witness ==
  /\ ret.op = "Delete" /\ ret.r.err = NIL
  /\ \A i \in 1..Len(Tables) :
        \E r \in DOMAIN Tables[i].Table : DOMAIN Tables[i].Table[r] = {}

\* table i records the posting of the document the writer indexes
Posted(i) ==
  threads.w.d.Index \in
     Timestamps(Tables[i], threads.w.uid, Hash16(Planes(i), threads.w.d.Vector).hash)

\* C28: during Index of a uid, the tables are updated in the order 0 ..
\* NumTables - 1 and the forward index is written only after every table has
\* been updated: a step of Index that changes table i changes nothing else,
\* finds the posting in every table before i and leaves the tables after i and
\* the forward index as they are, and the step that changes the forward index
\* finds the posting in every table.
C28_ForwardIndexWrittenLast ==
  [][(threads.on /\ threads.w.op = "Index") =>
       /\ \A i \in 1..Len(Tables) :
             Tables'[i] # Tables[i] =>
                /\ threads.w.pc = "tables" /\ threads.w.next = i
                /\ \A j \in 1..(i - 1) : Posted(j)
                /\ \A j \in 1..Len(Tables) \ {i} : Tables'[j] = Tables[j]
                /\ Docs' = Docs
       /\ Docs' # Docs =>
             /\ threads.w.pc = "forward"
             /\ \A i \in 1..Len(Tables) : Posted(i)
             /\ Tables' = Tables]_vars

\* Index of a uid that is not indexed has updated the first table and not the
\* second: the forward index does not hold the uid
C28_Witness ==
  /\ threads.on /\ threads.w.op = "Index"
  /\ threads.w.pc = "tables" /\ threads.w.next = 2
  /\ Posted(1) /\ ~Posted(2)
  /\ threads.w.uid \notin DOMAIN Docs

\* C29: in the Filter phase of Search, for every interleaving of the
\* NumTables per-table Filter tasks, the Score phase starts only after all
\* tasks have finished merging, and the merged uid -> set of time index
\* mapping equals the union of the per-table Filter results.
C29_JoinAfterEveryMerge ==
  (threads.on /\ ~threads.crashed) =>
     /\ threads.s.pc \in {"score", "done"} =>
           \A i \in 1..Len(Tables) : threads.g[i].pc = "done" /\ threads.g[i].held = {}
     /\ (\A i \in 1..Len(Tables) : threads.g[i].pc = "done") =>
           threads.s.merged = UNION {threads.g[i].found : i \in 1..Len(Tables)}
     /\ threads.s.pc \in {"score", "done"} => threads.s.merged \subseteq threads.s.pairs

\* the Score phase has started while the writer is still at work: the two
\* tasks returned results that differ, neither empty, and the merged mapping
\* holds both
C29_Witness ==
  /\ threads.on /\ ~threads.crashed
  /\ threads.s.pc = "score"
  /\ threads.w.pc \notin {"done", "enter"}
  /\ threads.g[1].found # {} /\ threads.g[2].found # {}
  /\ threads.g[1].found # threads.g[2].found
  /\ threads.s.merged = threads.g[1].found \cup threads.g[2].found

\* the locks a goroutine holds: at most one, resLock only while merging, the
\* mutex of a bitmap only between its Lock and Unlock
LockDiscipline ==
  threads.on =>
     /\ Cardinality(threads.w.held) <= 1
     /\ threads.w.held # {} => threads.w.pc \in {"locked", "locked2", "fatal"}
     /\ ResLock \notin threads.w.held
     /\ \A i \in 1..Len(Tables) :
           /\ Cardinality(threads.g[i].held) <= 1
           /\ ResLock \in threads.g[i].held => threads.g[i].pc \in {"merging", "fatal"}
           /\ (threads.g[i].held # {} /\ ResLock \notin threads.g[i].held)
                 => threads.g[i].pc \in {"locked", "fatal"}
     /\ \A i, j \in 1..Len(Tables) :
           i # j => threads.g[i].held \cap threads.g[j].held = {}
     /\ \A i \in 1..Len(Tables) : threads.g[i].held \cap threads.w.held = {}

\* the goroutine of table i waits for a mutex that is held
TaskBlocked(i) ==
  \/ /\ threads.g[i].pc = "lock"
     /\ Locked(RbLock(i, threads.g[i].cur, TaskHashOf(i)))
  \/ threads.g[i].pc = "merge" /\ Locked(ResLock)

\* the writer waits for a mutex that is held
WriterBlocked ==
  /\ threads.w.pc \in {"lock", "lock2"}
  /\ Locked(RbLock(threads.w.next, threads.w.cur[1], threads.w.cur[2]))

\* no deadlock: when a goroutine waits for a mutex that is held, some
\* goroutine can take a step, be it the holder; and the set of goroutines
\* that wait never covers all that have not finished
NoDeadlock ==
  (threads.on /\ ~threads.crashed) =>
     ~ /\ WriterBlocked \/ \E i \in 1..Len(Tables) : TaskBlocked(i)
       /\ WriterBlocked \/ threads.w.pc \in {"forward", "done"}
       /\ \A i \in 1..Len(Tables) : TaskBlocked(i) \/ threads.g[i].pc = "done"

\* the Filter phase of the search has been joined
Joined == threads.on /\ threads.s.pc \in {"score", "done"}

\* C30: no thread ever holds two locks at once: the merge mutex is acquired
\* only after Table.Filter has returned, never while hashing or while a bitmap
\* lock is held, and bitmap locks are never nested; consequently no
\* interleaving of a concurrent Index, Delete and Search deadlocks, and every
\* started Search eventually completes its Filter join.
C30_LocksAndJoin ==
  /\ []LockDiscipline
  /\ []NoDeadlock
  /\ (threads.on ~> Joined)

\* the lock discipline and the join of every search that the runtime does not
\* end
JoinsUnlessFault ==
  /\ []LockDiscipline
  /\ []NoDeadlock
  /\ (threads.on ~> (Joined \/ (threads.on /\ threads.crashed)))

\* the process has ended on a map read by a task of the search while an Index
\* writes it: the search has not joined and a task holds the mutex of a bitmap
C30_Witness ==
  /\ threads.on /\ threads.crashed
  /\ threads.w.op = "Index"
  /\ ~Joined
  /\ \E i \in 1..Len(Tables) :
        \E l \in threads.g[i].held : l # ResLock

\* the (uid, ts) pairs recorded in table i under the bucket code of vector v
RecordedUnder(i, v) ==
  UNION {{<<uid, ts>> : ts \in Timestamps(Tables[i], uid, Hash16(Planes(i), v).hash)} :
           uid \in DOMAIN Tables[i].Doc2Hash}

\* the vectors the last Search filtered with: the transformed query for the
\* positive pass, its negation for the negative pass
PassVectors ==
  LET qv == NewDefaultTransformFunc(ret.d.Vector)
  IN (IF OptionsInForce.SignFilter \in {SignFilter_ANY, SignFilter_POS} THEN {qv} ELSE {})
        \cup (IF OptionsInForce.SignFilter \in {SignFilter_ANY, SignFilter_NEG}
              THEN {Negate(qv)} ELSE {})

\* the candidates of the last Search: the pairs recorded in some table under
\* the bucket code of a pass, within the lag when there is one
SearchCandidates ==
  {p \in UNION {RecordedUnder(i, v) : i \in 1..Len(Tables), v \in PassVectors} :
     OptionsInForce.MaxLag > -1 =>
        /\ ret.d.Index - OptionsInForce.MaxLag <= p[2]
        /\ p[2] <= ret.d.Index + OptionsInForce.MaxLag}

\* C31: the num_scored value returned by Search equals the number of distinct
\* (uid, time_index) candidate pairs of the merged Filter result that have a
\* forward-index entry: a pair found in several tables or by both passes is
\* counted once, and a pair that fails the threshold or the sign filter is
\* counted too.
C31_NumScoredCountsCandidates ==
  SearchReturned =>
     ret.r.numScored = Cardinality({p \in SearchCandidates : p[1] \in DOMAIN Docs})

\* Search counted two candidates and returned fewer scores although
\* NumToReturn admits both; one of the candidates is recorded in both tables
\* under the bucket code of a pass
C31_Witness ==
  /\ SearchReturned
  /\ ret.r.numScored = 2
  /\ OptionsInForce.NumToReturn >= 2
  /\ Len(ret.r.scores) < 2
  /\ \E p \in SearchCandidates :
        \A i \in 1..Len(Tables) : \E v \in PassVectors : p \in RecordedUnder(i, v)

-----------------------------------------------------------------------------
(* The transform of the configuration *)

\* the last call was an Index that returned without error
IndexReturned == ret.op = "Index" /\ ret.r.err = NIL

\* table i records the posting of the last Index under the bucket code of v
PostedUnder(i, v) ==
  ret.d.Index \in Timestamps(Tables[i], ret.uid, Hash16(Planes(i), v).hash)

\* the score Search returned for a pair is the correlation of qv with the
\* stored slice as T gives it
ScoredAs(sc, qv, T(_)) ==
  LET g == GetVector(Docs, sc.UID, sc.Index)
  IN ~g.nil /\ ~g.panic /\ sc.Score = Correlation(qv, T(g.vec))

\* the pair of a returned score is recorded in some table under the bucket
\* code of qv or of its negation
FoundUnder(sc, qv) ==
  \E i \in 1..Len(Tables), v \in {qv, Negate(qv)} : <<sc.UID, sc.Index>> \in RecordedUnder(i, v)

\* C32: for any configured transform T, including one that returns a new
\* vector and leaves its argument unmodified, the vector Index hashes into
\* each table is T(d.vector), and the query vector Search hashes and scores
\* is T(query.vector), stored slices being scored as T(slice).
C32_TransformApplied ==
  /\ IndexReturned =>
        \A i \in 1..Len(Tables) : PostedUnder(i, TFunc(ret.d.Vector).ret)
  /\ SearchReturned =>
        \A k \in 1..Len(ret.r.scores) :
           /\ FoundUnder(ret.r.scores[k], TFunc(ret.d.Vector).ret)
           /\ ScoredAs(ret.r.scores[k], TFunc(ret.d.Vector).ret, LAMBDA v : TFunc(v).ret)

\* what holds of the transform that changes its argument in place
TransformAppliedInPlace == Cfg = EngineCfg => C32_TransformApplied

\* what the engine does with any transform: it hashes and scores the
\* argument as the call of the transform left it
ArgumentHashed ==
  /\ IndexReturned =>
        \A i \in 1..Len(Tables) : PostedUnder(i, TFunc(ret.d.Vector).arg)
  /\ SearchReturned =>
        \A k \in 1..Len(ret.r.scores) :
           /\ FoundUnder(ret.r.scores[k], TFunc(ret.d.Vector).arg)
           /\ ScoredAs(ret.r.scores[k], TFunc(ret.d.Vector).arg, LAMBDA v : TFunc(v).arg)

\* an Index under the configured transform returned without error, and in
\* some table the bucket code of the transformed vector is another than the
\* code of the vector as passed
C32_Witness ==
  /\ Cfg = TransformCfg
  /\ IndexReturned
  /\ \E i \in 1..Len(Tables) :
        Hash16(Planes(i), SignInverted(ret.d.Vector)).hash # Hash16(Planes(i), ret.d.Vector).hash

-----------------------------------------------------------------------------
(* What the engine holds for one uid *)

\* the (row, bucket code) pairs of table t whose bitmap holds uid
BucketsOf(t, uid) ==
  UNION {{<<row, code>> : code \in {c \in DOMAIN t.Table[row] : uid \in t.Table[row][c]}} :
           row \in DOMAIN t.Table}

\* the postings, the reverse-index entries and the forward-index entry of uid
\* (an entry that is absent is the empty sequence)
StateOf(tables, docs, uid) ==
  [postings |-> [i \in 1..Len(tables) |-> BucketsOf(tables[i], uid)],
   reverse |-> [i \in 1..Len(tables) |->
                  IF uid \in DOMAIN tables[i].Doc2Hash THEN <<tables[i].Doc2Hash[uid]>>
                  ELSE <<>>],
   forward |-> IF uid \in DOMAIN docs THEN <<docs[uid]>> ELSE <<>>]

\* the last call was a Delete that returned without error
DeleteReturned == ret.op = "Delete" /\ ret.r.err = NIL

\* Index(d) on the engine as it is and on an engine just constructed return
\* the same error and leave the same state for d's uid
IndexesAsNew(d) ==
  LET here == LSHIndex(Tables, Docs, d)
      new == LSHIndex(NewTables(Cfg), NewInMemory, d)
  IN /\ here.err = new.err
     /\ StateOf(here.tables, here.docs, d.UID) = StateOf(new.tables, new.docs, d.UID)

\* C33: Delete(uid) followed by Index(uid, t, v) leaves, for that uid,
\* exactly the table postings, reverse-index entries and forward-index entry
\* (base time t, vector v) that Index(uid, t, v) produces on an engine where
\* the uid was never indexed; nothing recorded before the Delete survives.
C33_DeleteThenIndexIsFresh ==
  DeleteReturned =>
     \A t \in Times, v \in DocVectors : IndexesAsNew(NewSimple(ret.uid, t, v))

\* a Delete returned without error for a uid that had been indexed twice,
\* and an Index of that uid that follows it is accepted
C33_Witness ==
  /\ DeleteReturned
  /\ nops = MaxOps
  /\ ret.uid \notin DOMAIN Docs
  /\ \A i \in 1..Len(Tables) : ret.uid \notin DOMAIN Tables[i].Doc2Hash
  /\ DOMAIN Docs = {}
  /\ \E t \in Times, v \in DocVectors :
        LSHIndex(Tables, Docs, NewSimple(ret.uid, t, v)).err = NIL

\* the time indices table t records for uid, under any bucket code
RecordedTimes(t, uid) ==
  IF uid \in DOMAIN t.Doc2Hash
  THEN UNION {Timestamps(t, uid, code) : code \in DOMAIN t.Doc2Hash[uid]}
  ELSE {}

\* C34: after any sequence of sequential Index and Delete calls, every
\* table's reverse index has the same set of uids, which is the set of uids
\* of the forward index, and the set of time indices recorded for a uid is
\* the same in every table.
C34_IndexesAgreeOnUIDs ==
  /\ \A i \in 1..Len(Tables) : DOMAIN Tables[i].Doc2Hash = DOMAIN Docs
  /\ \A i, j \in 1..Len(Tables) : \A uid \in UIDs :
        RecordedTimes(Tables[i], uid) = RecordedTimes(Tables[j], uid)

\* a Delete returned without error and left another uid stored, which every
\* table records
C34_Witness ==
  /\ DeleteReturned
  /\ \E uid \in DOMAIN Docs :
        /\ uid # ret.uid
        /\ \A i \in 1..Len(Tables) : RecordedTimes(Tables[i], uid) # {}

\* the offset GetVector computes for time index ts of a stored uid
OffsetOf(uid, ts) == Quo(ts - Docs[uid].Index, Cfg.SamplePeriod)

\* the (uid, time index) pairs Table.Filter can return from some table
Returnable ==
  UNION {{<<uid, ts>> : ts \in RecordedTimes(Tables[i], uid)} :
           uid \in UIDs, i \in 1..Len(Tables)}

\* C35: in every state reachable by sequential Index and Delete calls
\* (including re-indexing a uid at a time earlier than its stored base time),
\* every (uid, time_index) pair that Table.Filter can return satisfies
\* 0 <= (time_index - stored.time_index) / SamplePeriod <= length of the
\* stored vector, so the slice of the forward index taken during scoring is
\* within bounds and Search never faults.
C35_CandidatesWithinStoredVector ==
  /\ \A p \in Returnable :
        p[1] \in DOMAIN Docs =>
           /\ 0 <= OffsetOf(p[1], p[2])
           /\ OffsetOf(p[1], p[2]) <= Len(Docs[p[1]].Vector)
  /\ ret.op = "Search" => ret.r.err # Panic

\* a uid was indexed again at a time earlier than its base time: a table
\* records a time index before the base time of the stored vector, and a
\* Search that had it as a candidate faulted
C35_Witness ==
  /\ ret.op = "Search"
  /\ ret.r.err = Panic
  /\ \E p \in Returnable : p[1] \in DOMAIN Docs /\ OffsetOf(p[1], p[2]) < 0

\* the candidates of one document stay within its vector: what holds while
\* no uid is indexed at a time before its base time
IndexedInOrder ==
  \A uid \in DOMAIN Docs : \A d \in indexed : d.UID = uid => Docs[uid].Index <= d.Index

CandidatesWithinVectorInOrder ==
  IndexedInOrder =>
     \A p \in Returnable :
        p[1] \in DOMAIN Docs =>
           /\ 0 <= OffsetOf(p[1], p[2])
           /\ OffsetOf(p[1], p[2]) <= Len(Docs[p[1]].Vector)

\* table i's bucket code of the slice GetVector(uid, ts) is h
CodeOfSlice(i, uid, ts, h) ==
  LET g == GetVector(Docs, uid, ts)
  IN /\ ~g.nil
     /\ ~g.panic
     /\ Hash16(Planes(i), g.vec).err = NIL
     /\ Hash16(Planes(i), g.vec).hash = h

\* the (uid, bucket code, time index) entries of table i's reverse index
ReverseEntries(i) ==
  UNION {UNION {{<<uid, code, ts>> : ts \in Timestamps(Tables[i], uid, code)} :
                  code \in DOMAIN Tables[i].Doc2Hash[uid]} :
           uid \in DOMAIN Tables[i].Doc2Hash}

\* C36: after any sequence of Index and Delete calls, for every table and
\* every (bucket code h, time index ts) recorded in its reverse index for a
\* uid, h equals that table's bucket code of the forward-index slice
\* GetVector(uid, ts); this holds also after re-indexing the same uid at the
\* same or an overlapping time with different values.
C36_ReverseIndexMatchesSlices ==
  \A i \in 1..Len(Tables) : \A e \in ReverseEntries(i) :
     CodeOfSlice(i, e[1], e[3], e[2])

\* a uid was indexed again at the time index of a document it already had,
\* with another vector, and a table records for that time index a bucket
\* code that is not the code of the stored slice
C36_Witness ==
  /\ IndexReturned
  /\ \E d \in indexed :
        d.UID = ret.uid /\ d.Index = ret.d.Index /\ d.Vector # ret.d.Vector
  /\ \E i \in 1..Len(Tables) : \E e \in ReverseEntries(i) :
        /\ e[1] = ret.uid
        /\ e[3] = ret.d.Index
        /\ ~GetVector(Docs, e[1], e[3]).panic
        /\ ~CodeOfSlice(i, e[1], e[3], e[2])

\* what holds of a uid that has one document
CodesMatchOneDocument ==
  \A i \in 1..Len(Tables) : \A e \in ReverseEntries(i) :
     Cardinality({d \in indexed : d.UID = e[1]}) = 1 => CodeOfSlice(i, e[1], e[3], e[2])

-----------------------------------------------------------------------------
(* The order in which candidates reach the collector *)

\* res.Update called with the scores of offered at the places of order, one
\* after the other, on collector r
RECURSIVE UpdatedInOrder(_, _)
UpdatedInOrder(r, order) ==
  IF order = <<>> \/ r.panic THEN r
  ELSE UpdatedInOrder(Update(r, offered[Head(order)]), Tail(order))

\* what Fetch returns when the scores of offered are passed to Update in the
\* given order, on a new collector of the options of res
FetchedInOrder(order) ==
  Fetch(UpdatedInOrder(NewResults(res.TopN, res.Threshold, res.SignFilter), order)).scores

\* the offered scores are those of different (uid, time index) pairs
DistinctCandidates ==
  \A i, j \in 1..Len(offered) :
     (offered[i].UID = offered[j].UID /\ offered[i].Index = offered[j].Index) => i = j

\* C37: for a fixed set of candidate scores, the sequence returned by
\* Results.Fetch is the same for every order in which the candidates are
\* passed to Update, including when more than top_n candidates share the same
\* |score|.
C37_FetchIndependentOfOrder ==
  (Fetched /\ DistinctCandidates) =>
     \A order \in Orderings(1..Len(offered)) : FetchedInOrder(order) = ret.r.scores

\* more candidates than top_n passed with the same |score|, Fetch returned
\* top_n of them, and passing them in another order returns another sequence
C37_Witness ==
  /\ Fetched
  /\ DistinctCandidates
  /\ res.TopN >= 1
  /\ Len(ret.r.scores) = res.TopN
  /\ Len(offered) > res.TopN
  /\ \A i, j \in 1..Len(offered) :
        passed(res, offered[i]) /\ AbsEqual(offered[i], offered[j])
  /\ \E order \in Orderings(1..Len(offered)) : FetchedInOrder(order) # ret.r.scores

\* no two offered scores that pass have the same |score|
NoTies ==
  \A i, j \in 1..Len(offered) :
     (i # j /\ passed(res, offered[i]) /\ passed(res, offered[j]))
        => ~AbsEqual(offered[i], offered[j])

\* what holds when no |score| is shared, and when top_n admits every
\* candidate that passes
FetchIndependentOfOrderWithoutTies ==
  (Fetched /\ DistinctCandidates
     /\ (NoTies \/ Cardinality({i \in 1..Len(offered) : passed(res, offered[i])}) <= res.TopN))
  => \A order \in Orderings(1..Len(offered)) : FetchedInOrder(order) = ret.r.scores

-----------------------------------------------------------------------------
(* An Index and a Delete of another uid that share a bucket *)

\* LSH.Index and LSH.Delete have both returned
BothReturned == threads.on /\ threads.ix.pc = "done" /\ threads.dl.pc = "done"

\* in table i the uid is in a bitmap that the row of every time index
\* recorded for it holds under the recorded bucket code
PostingReachable(i, uid) ==
  /\ uid \in DOMAIN Tables[i].Doc2Hash
  /\ \A e \in ReverseEntries(i) :
        e[1] = uid =>
           /\ RowIndex(e[3]) \in DOMAIN Tables[i].Table
           /\ e[2] \in DOMAIN Tables[i].Table[RowIndex(e[3])]
           /\ uid \in Tables[i].Table[RowIndex(e[3])][e[2]]

\* C38: when Index of a uid A runs concurrently with Delete of a different
\* uid B that shares a bucket with A, in every interleaving A's posting is
\* not lost: after both calls return, A is in a bitmap still reachable from
\* the table's bucket map at the (row, bucket) that A's reverse-index entry
\* names.
C38_PostingSurvivesDelete ==
  (BothReturned /\ threads.shares) =>
     \A i \in 1..Len(Tables) : PostingReachable(i, threads.ix.uid)

\* both calls returned; B shared the bucket with A; a table records A's time
\* index under a bucket that its row no longer has, and the bitmap that
\* holds A is the one Delete took out of the row
C38_Witness ==
  /\ BothReturned
  /\ threads.shares
  /\ ~threads.crashed
  /\ threads.dl.err = NIL
  /\ \E i \in 1..Len(Tables) :
        /\ threads.ix.uid \in DOMAIN Tables[i].Doc2Hash
        /\ threads.ix.codes[i] \in DOMAIN Tables[i].Doc2Hash[threads.ix.uid]
        /\ threads.ix.codes[i] \notin DOMAIN Tables[i].Table[RowIndex(threads.ix.d.Index)]

-----------------------------------------------------------------------------
(* What a call leaves alone *)

\* C39: Index(d) and Delete(u) change only the state of their own uid: for
\* every other uid, its bitmap membership in every table, its reverse-index
\* entries and its forward-index entry are what they were before the call,
\* also when the other uid shares a bucket or a row with the uid of the call.
C39_OtherUIDsUnchanged ==
  [][ret'.op \in {"Index", "Delete"} =>
        \A uid \in UIDs \ {ret'.uid} :
           StateOf(Tables', Docs', uid) = StateOf(Tables, Docs, uid)]_vars

\* an Index returned without error, and the uid it indexed is in one bitmap
\* with another uid that the forward index holds
C39_Witness ==
  /\ IndexReturned
  /\ \E uid \in DOMAIN Docs \ {ret.uid} : \E i \in 1..Len(Tables) :
        BucketsOf(Tables[i], uid) \cap BucketsOf(Tables[i], ret.uid) # {}

====
